---- MODULE Spec2Model ----
(***************************************************************************)
(* Gameplay simulation loop of the arena shooter: the Game controller      *)
(* (src/src/game.ts), the Spawner, Collision and Scoring systems, the      *)
(* Entity Manager and the Player / Alien / Projectile entities.            *)
(*                                                                         *)
(* Units.  Time is counted in ticks of 0.05 s and length in half world     *)
(* units, so that every configured constant is an integer                  *)
(* (PROJECTILE_FIRE_RATE 0.25 s = 5 ticks, HIT_DISTANCE_PROJECTILE_ALIEN   *)
(* 1.5 = 3 half units, ...).                                               *)
(*                                                                         *)
(* Geometry.  The coordinates of the entities are functions of the frame   *)
(* inputs (movement vector, aim point, deltaTime, the random spawn angle). *)
(* The model does not carry coordinates from frame to frame: each PLAYING  *)
(* frame draws the positions the entities hold after the Entity Manager's  *)
(* update pass from the finite set Positions (a line of cells), and the    *)
(* collision pass computes its distances from them as the code does.       *)
(***************************************************************************)
EXTENDS Integers, Sequences, FiniteSets, TLC

VARIABLES
    state,               \* Game.state
    gameTime,            \* Game.gameTime (ticks)
    waitingForNextWave,  \* Game.waitingForNextWave
    entities,            \* EntityManager.entities, in insertion order
    spawner,             \* the SpawnerSystem's fields
    scoring,             \* the ScoringSystem's fields
    screen,              \* the containers of the HUDManager that are visible
    profile,             \* the input profile the frames of the session draw from
    waves,               \* history: one record per startWave call of the session
    last                 \* history: what the last operation did

vars == <<state, gameTime, waitingForNextWave, entities, spawner, scoring,
          screen, profile, waves, last>>

----------------------------------------------------------------------------
(* Program constants (src/src/utils/constants.ts) *)

PLAYER_HEALTH == 10
PLAYER_SPEED == 16
PROJECTILE_LIFETIME == 40
PROJECTILE_FIRE_RATE == 5
ALIEN_BASE_SPEED == 6
ALIEN_SPEED_INCREMENT == 1
ALIEN_HEALTH == 1
WAVE_DELAY == 40
ARENA_SIZE == 80
HIT_DISTANCE_PROJECTILE_ALIEN == 3
HIT_DISTANCE_ALIEN_PLAYER == 4
POINTS_PER_ALIEN == 10

(* Bounds of the model *)

MaxWaveCount == 3     \* a wave's quota is capped at this many aliens
MaxProjectiles == 2   \* the free profile raises the shoot flag only while fewer are held
MaxFrames == 33       \* PLAYING frames of a session of a restricted input profile
FreeFrames == 6       \* PLAYING frames of a session of the unrestricted profile
MaxHeld == 4          \* entities held when a component is driven on its own
MaxWaveIndex == 6     \* largest wave index startWave is called with on its own
MaxAlienHealth == 4   \* an alien driven on its own keeps its health within +-this
MaxNextWaves == 8     \* nextWave calls after a reset when the scoring is driven on its own
MaxKills == 12        \* kill awards after a reset when the scoring is driven on its own
MaxElapsed == 100     \* the frame time measured since a wave's start or last spawn is capped here

Min(a, b) == IF a <= b THEN a ELSE b
Max(a, b) == IF a >= b THEN a ELSE b

\* the ticks of one second: the velocities of the code are per second
TicksPerSecond == 20

\* helpers.ts clamp
clamp(value, min, max) == Max(min, Min(max, value))

WaveCounts == <<5, 8, 12, 15, 20>>
WaveIntervals == <<30, 24, 20, 18, 16>>

\* WAVES[w + 1] is the code's WAVES[w]
WAVES ==
    [w \in 1..Len(WaveCounts) |->
        [count |-> Min(WaveCounts[w], MaxWaveCount), interval |-> WaveIntervals[w]]]

\* the deltaTime a frame draws, in ticks: 1 s
DeltaTimes == {20}

\* the positions a frame draws: two cells of a line, one hit distance apart, and
\* for a projectile also a point beyond the extended bounds of the arena
Positions == {0, HIT_DISTANCE_ALIEN_PLAYER}
OutOfBounds == ARENA_SIZE + 20 + 1
ProjectilePositions == Positions \cup {OutOfBounds}

\* Input profiles.  "free": every input, for FreeFrames frames; "passive": the
\* shoot flag is never raised; "evasive": the player is never moved within
\* HIT_DISTANCE_ALIEN_PLAYER of an alien and the shoot flag is raised only
\* while no live projectile is held.
Profiles == {"free", "passive", "evasive"}

----------------------------------------------------------------------------
(* Entities *)

Entity(type, health, speed, target) ==
    [type |-> type, alive |-> TRUE, health |-> health, lifetime |-> 0,
     lastFireTime |-> 0, speed |-> speed, target |-> target]

NewPlayer == Entity("player", PLAYER_HEALTH, 0, "none")
NewAlien(speed) == Entity("alien", ALIEN_HEALTH, speed, "origin")
NewProjectile == Entity("projectile", 0, 0, "none")

Abs(x) == IF x < 0 THEN -x ELSE x
Distance(a, b) == Abs(a - b)

\* variant: the cooldown is not looked at
canFire_burst(p, currentTime, fireRate) == currentTime - p.lastFireTime >= 0

canFire(p, currentTime, fireRate) == currentTime - p.lastFireTime >= fireRate

\* variant: only the x coordinate is clamped
updateMovement_x(p, deltaTime, movement) ==
    IF movement[1] = 0 /\ movement[2] = 0 THEN p
    ELSE LET vx == (movement[1] * PLAYER_SPEED * deltaTime) \div TicksPerSecond
             vz == (movement[2] * PLAYER_SPEED * deltaTime) \div TicksPerSecond
         IN  [p EXCEPT !.x = clamp(p.x + vx, -ARENA_SIZE, ARENA_SIZE),
                       !.z = p.z + vz]

\* Player.updateMovement; p carries the coordinates x, z of the mesh
updateMovement(p, deltaTime, movement) ==
    IF movement[1] = 0 /\ movement[2] = 0 THEN p
    ELSE LET vx == (movement[1] * PLAYER_SPEED * deltaTime) \div TicksPerSecond
             vz == (movement[2] * PLAYER_SPEED * deltaTime) \div TicksPerSecond
         IN  [p EXCEPT !.x = clamp(p.x + vx, -ARENA_SIZE, ARENA_SIZE),
                       !.z = clamp(p.z + vz, -ARENA_SIZE, ARENA_SIZE)]
recordFire(p, currentTime) == [p EXCEPT !.lastFireTime = currentTime]

\* variant: liveness is not flipped when health reaches 0
Player_takeDamage_late(p, amount) ==
    LET h == p.health - amount
    IN  IF h < 0 THEN [p EXCEPT !.health = 0, !.alive = FALSE]
        ELSE [p EXCEPT !.health = h]

Player_takeDamage(p, amount) ==
    LET h == p.health - amount
    IN  IF h <= 0 THEN [p EXCEPT !.health = 0, !.alive = FALSE]
                  ELSE [p EXCEPT !.health = h]

\* variant: an alien at health 0 is still alive
Alien_takeDamage_below(a, amount) ==
    LET h == a.health - amount
    IN  IF h < 0 THEN [a EXCEPT !.health = h, !.alive = FALSE]
                 ELSE [a EXCEPT !.health = h]

Alien_takeDamage(a, amount) ==
    LET h == a.health - amount
    IN  IF h <= 0 THEN [a EXCEPT !.health = h, !.alive = FALSE]
                  ELSE [a EXCEPT !.health = h]

\* variant: the setter keeps the target the alien had
setTarget_keep(a) == a

setTarget(a) == [a EXCEPT !.target = "player"]

kill(p) == [p EXCEPT !.alive = FALSE]

\* variant: the projectile expires on reaching its lifetime
Projectile_update_at(p, deltaTime, x, z) ==
    LET life == p.lifetime + deltaTime
        dead == \/ life >= PROJECTILE_LIFETIME
                \/ Abs(x) > ARENA_SIZE + 20
                \/ Abs(z) > ARENA_SIZE + 20
    IN  [p EXCEPT !.lifetime = life, !.alive = IF dead THEN FALSE ELSE @]

\* x, z are the coordinates the projectile holds after the move
Projectile_update(p, deltaTime, x, z) ==
    LET life == p.lifetime + deltaTime
        dead == \/ life > PROJECTILE_LIFETIME
                \/ Abs(x) > ARENA_SIZE + 20
                \/ Abs(z) > ARENA_SIZE + 20
    IN  [p EXCEPT !.lifetime = life, !.alive = IF dead THEN FALSE ELSE @]

\* variant: the update of an alien sets its liveness flag
Entity_update_revive(e, deltaTime, x) ==
    IF e.type = "projectile" THEN Projectile_update(e, deltaTime, x, 0)
    ELSE IF e.type = "alien" THEN [e EXCEPT !.alive = TRUE] ELSE e

\* entity.update of the update pass; the entities are placed on the line z = 0
Entity_update(e, deltaTime, x) ==
    IF e.type = "projectile" THEN Projectile_update(e, deltaTime, x, 0) ELSE e

----------------------------------------------------------------------------
(* Entity Manager *)

Indices(s) == [i \in 1..Len(s) |-> i]

\* the indices of the entities of a type, in insertion order
getByType(ents, type) == SelectSeq(Indices(ents), LAMBDA i : ents[i].type = type)

\* the first loop of EntityManager.update
UpdateAll(ents, deltaTime, pos) ==
    [i \in 1..Len(ents) |-> Entity_update(ents[i], deltaTime, pos[i])]

\* variant: the filter lets every entity through
Held_all(ents) == Indices(ents)

\* the filter of EntityManager.update: the indices that stay held
Held(ents) == SelectSeq(Indices(ents), LAMBDA i : ents[i].alive)

\* variant: dispose is called on no entity
Disposed_none(ents) == << >>

\* the filter of EntityManager.update: the indices dispose is called on
Disposed(ents) == SelectSeq(Indices(ents), LAMBDA i : ~ents[i].alive)

\* variant: the dead entities are removed first, the others updated afterwards
EntityManager_update_swapped(ents, deltaTime, pos) ==
    LET held == Held(ents)
        gone == Disposed(ents)
        objs == UpdateAll(ents, deltaTime, pos)
    IN  [entities |-> [k \in 1..Len(held) |-> objs[held[k]]],
         disposed |-> [k \in 1..Len(gone) |-> ents[gone[k]]]]

\* EntityManager.update: the list held afterwards and the objects disposed
EntityManager_update(ents, deltaTime, pos) ==
    LET objs == UpdateAll(ents, deltaTime, pos)
        held == Held(objs)
        gone == Disposed(objs)
    IN  [entities |-> [k \in 1..Len(held) |-> objs[held[k]]],
         disposed |-> [k \in 1..Len(gone) |-> objs[gone[k]]]]

EntityManager_add(ents, e) == Append(ents, e)

\* Array.indexOf: the first index that holds the object e, 0 for the code's -1
indexOf(ents, e) ==
    LET at == {i \in 1..Len(ents) : ents[i].id = e.id}
    IN  IF at = {} THEN 0 ELSE CHOOSE i \in at : \A j \in at : i <= j

\* variant: the index is not looked at; splice(-1, 1) removes the last element
EntityManager_remove_unguarded(ents, e) ==
    LET index == indexOf(ents, e)
        at == IF index = 0 THEN Len(ents) ELSE index
    IN  [entities |-> SubSeq(ents, 1, at - 1) \o SubSeq(ents, at + 1, Len(ents)),
         disposed |-> <<e>>]

\* EntityManager.remove: the list held afterwards and the objects disposed
EntityManager_remove(ents, e) ==
    LET index == indexOf(ents, e)
    IN  IF index # 0
        THEN [entities |-> SubSeq(ents, 1, index - 1)
                           \o SubSeq(ents, index + 1, Len(ents)),
              disposed |-> <<e>>]
        ELSE [entities |-> ents, disposed |-> << >>]

\* variant: the entities of the previous session are kept
EntityManager_clear_keep(ents) == ents

EntityManager_clear(ents) == << >>

----------------------------------------------------------------------------
(* Scoring System *)

\* variant: the points are taken off the score
addPoints_sub(sc, points) == [sc EXCEPT !.score = @ - points]

addPoints(sc, points) == [sc EXCEPT !.score = @ + points]
addAlienKillPoints(sc) == addPoints(sc, POINTS_PER_ALIEN)
\* variant: the wave counter skips a wave
nextWave_skip(sc) == [sc EXCEPT !.currentWave = @ + 2]

nextWave(sc) == [sc EXCEPT !.currentWave = @ + 1]
\* variant: the last configured wave is not waited for
isAllWavesComplete_early(sc) == sc.currentWave >= Len(WaveCounts) - 1

\* variant: completion is reported one wave late
isAllWavesComplete_after(sc) == sc.currentWave > Len(WAVES)

isAllWavesComplete(sc) == sc.currentWave >= Len(WAVES)
\* variant: the 0-based counter is displayed
getCurrentWaveDisplay_zero(sc) == sc.currentWave

getCurrentWaveDisplay(sc) == sc.currentWave + 1
getTotalWaves(sc) == Len(WAVES)
Scoring_reset(sc) == [score |-> 0, currentWave |-> 0]

----------------------------------------------------------------------------
(* Spawner System *)

Spawner_reset(s) ==
    [currentWave |-> 0, aliensToSpawn |-> 0, aliensSpawned |-> 0, spawnTimer |-> 0,
     waveDelayTimer |-> 0, waveActive |-> FALSE, waveComplete |-> FALSE]

\* variant: an index beyond the table starts the last configured wave
startWave_clamp(s, waveNumber) ==
    LET w == Min(waveNumber, Len(WAVES) - 1)
    IN  [currentWave |-> w, aliensToSpawn |-> WAVES[w + 1].count,
         aliensSpawned |-> 0, spawnTimer |-> 0, waveActive |-> TRUE,
         waveComplete |-> FALSE, waveDelayTimer |-> 0]

\* variant: the wave table is read at the spawner's own index
startWave_again(s, waveNumber) ==
    IF waveNumber >= Len(WAVES) THEN s
    ELSE [currentWave |-> s.currentWave, aliensToSpawn |-> WAVES[s.currentWave + 1].count,
          aliensSpawned |-> 0, spawnTimer |-> 0, waveActive |-> TRUE,
          waveComplete |-> FALSE, waveDelayTimer |-> 0]

startWave(s, waveNumber) ==
    IF waveNumber >= Len(WAVES) THEN s
    ELSE [currentWave |-> waveNumber, aliensToSpawn |-> WAVES[waveNumber + 1].count,
          aliensSpawned |-> 0, spawnTimer |-> 0, waveActive |-> TRUE,
          waveComplete |-> FALSE, waveDelayTimer |-> 0]

\* variant: every alien is given the speed of the first wave
spawnAlien_base(s) == NewAlien(ALIEN_BASE_SPEED)

\* the alien SpawnerSystem.spawnAlien creates
spawnAlien(s) == NewAlien(ALIEN_BASE_SPEED + s.currentWave * ALIEN_SPEED_INCREMENT)

\* variant: the wave is closed one alien late
Spawner_update_late(s, deltaTime) ==
    IF ~s.waveActive THEN [sp |-> s, spawned |-> FALSE]
    ELSE LET timer == s.spawnTimer + deltaTime
             due == timer >= WAVES[s.currentWave + 1].interval
                    /\ s.aliensSpawned <= s.aliensToSpawn
             n == IF due THEN s.aliensSpawned + 1 ELSE s.aliensSpawned
         IN  [sp |-> [s EXCEPT !.spawnTimer = IF due THEN 0 ELSE timer,
                               !.aliensSpawned = n,
                               !.waveActive = ~(n > s.aliensToSpawn)],
              spawned |-> due]

\* variant: the timer starts again in every call that does not spawn
Spawner_update_restart(s, deltaTime) ==
    IF ~s.waveActive THEN [sp |-> s, spawned |-> FALSE]
    ELSE LET timer == s.spawnTimer + deltaTime
             due == timer >= WAVES[s.currentWave + 1].interval
                    /\ s.aliensSpawned < s.aliensToSpawn
             n == IF due THEN s.aliensSpawned + 1 ELSE s.aliensSpawned
         IN  [sp |-> [s EXCEPT !.spawnTimer = 0,
                               !.aliensSpawned = n,
                               !.waveActive = ~(n >= s.aliensToSpawn)],
              spawned |-> due]

\* variant: the timer runs on after a spawn
Spawner_update_keep(s, deltaTime) ==
    IF ~s.waveActive THEN [sp |-> s, spawned |-> FALSE]
    ELSE LET timer == s.spawnTimer + deltaTime
             due == timer >= WAVES[s.currentWave + 1].interval
                    /\ s.aliensSpawned < s.aliensToSpawn
             n == IF due THEN s.aliensSpawned + 1 ELSE s.aliensSpawned
         IN  [sp |-> [s EXCEPT !.spawnTimer = timer,
                               !.aliensSpawned = n,
                               !.waveActive = ~(n >= s.aliensToSpawn)],
              spawned |-> due]

\* SpawnerSystem.update: the spawner afterwards and whether spawnAlien was called
Spawner_update(s, deltaTime) ==
    IF ~s.waveActive THEN [sp |-> s, spawned |-> FALSE]
    ELSE LET timer == s.spawnTimer + deltaTime
             due == timer >= WAVES[s.currentWave + 1].interval
                    /\ s.aliensSpawned < s.aliensToSpawn
             n == IF due THEN s.aliensSpawned + 1 ELSE s.aliensSpawned
         IN  [sp |-> [s EXCEPT !.spawnTimer = IF due THEN 0 ELSE timer,
                               !.aliensSpawned = n,
                               !.waveActive = ~(n >= s.aliensToSpawn)],
              spawned |-> due]

\* variant: only the aliens whose liveness flag is true are counted
isWaveComplete_live(s, ents) ==
    IF s.waveActive THEN [sp |-> s, result |-> FALSE]
    ELSE IF s.waveComplete THEN [sp |-> s, result |-> TRUE]
    ELSE IF (\A i \in 1..Len(ents) : ents[i].type = "alien" => ~ents[i].alive)
            /\ s.aliensSpawned > 0
         THEN [sp |-> [s EXCEPT !.waveComplete = TRUE], result |-> TRUE]
         ELSE [sp |-> s, result |-> FALSE]

\* variant: the wave is never found complete before it was marked complete
isWaveComplete_never(s, ents) ==
    IF s.waveActive THEN [sp |-> s, result |-> FALSE]
    ELSE IF s.waveComplete THEN [sp |-> s, result |-> TRUE]
    ELSE [sp |-> s, result |-> FALSE]

\* variant: the aliens are counted on every call, the mark is not read
isWaveComplete_fresh(s, ents) ==
    IF s.waveActive THEN [sp |-> s, result |-> FALSE]
    ELSE IF Len(getByType(ents, "alien")) = 0 /\ s.aliensSpawned > 0
         THEN [sp |-> [s EXCEPT !.waveComplete = TRUE], result |-> TRUE]
         ELSE [sp |-> s, result |-> FALSE]

\* SpawnerSystem.isWaveComplete: the spawner afterwards and the value returned
isWaveComplete(s, ents) ==
    IF s.waveActive THEN [sp |-> s, result |-> FALSE]
    ELSE IF s.waveComplete THEN [sp |-> s, result |-> TRUE]
    ELSE IF Len(getByType(ents, "alien")) = 0 /\ s.aliensSpawned > 0
         THEN [sp |-> [s EXCEPT !.waveComplete = TRUE], result |-> TRUE]
         ELSE [sp |-> s, result |-> FALSE]

\* variant: the delay is reported as elapsed at once
updateWaveDelay_eager(s, deltaTime) ==
    LET t == s.waveDelayTimer + deltaTime
    IN  [sp |-> [s EXCEPT !.waveDelayTimer = t], result |-> t >= 0]

\* variant: the delay timer is not advanced
updateWaveDelay_stuck(s, deltaTime) ==
    [sp |-> s, result |-> s.waveDelayTimer >= WAVE_DELAY]

\* SpawnerSystem.updateWaveDelay
updateWaveDelay(s, deltaTime) ==
    LET t == s.waveDelayTimer + deltaTime
    IN  [sp |-> [s EXCEPT !.waveDelayTimer = t], result |-> t >= WAVE_DELAY]

----------------------------------------------------------------------------
(* Collision System.  objs are the entity objects, pos their positions;    *)
(* projectiles and aliens are the lists passed in (indices into objs) and  *)
(* player is the index of the player.                                      *)

\* variant: the inner loop runs to its end, the last alien in range is kept
FirstAlienHit_last(objs, pos, aliens, p) ==
    LET inRange == {k \in 1..Len(aliens) :
                       /\ objs[aliens[k]].alive
                       /\ Distance(pos[p], pos[aliens[k]]) < HIT_DISTANCE_PROJECTILE_ALIEN}
    IN  IF inRange = {} THEN 0
        ELSE aliens[CHOOSE k \in inRange : \A j \in inRange : k >= j]

\* the inner loop: the first alive alien in range of projectile p, or 0
FirstAlienHit(objs, pos, aliens, p) ==
    LET inRange == {k \in 1..Len(aliens) :
                       /\ objs[aliens[k]].alive
                       /\ Distance(pos[p], pos[aliens[k]]) < HIT_DISTANCE_PROJECTILE_ALIEN}
    IN  IF inRange = {} THEN 0
        ELSE aliens[CHOOSE k \in inRange : \A j \in inRange : k <= j]

RECURSIVE ProjectileHits(_, _, _, _)
ProjectileHits(objs, pos, projectiles, aliens) ==
    IF projectiles = << >> THEN << >>
    ELSE LET p == Head(projectiles)
             a == IF objs[p].alive THEN FirstAlienHit(objs, pos, aliens, p) ELSE 0
             rest == ProjectileHits(objs, pos, Tail(projectiles), aliens)
         IN  IF a = 0 THEN rest ELSE <<[projectile |-> p, alien |-> a]>> \o rest

\* variant: the liveness of the alien is not looked at
AlienPlayerHits_dead(objs, pos, aliens, player) ==
    SelectSeq(aliens, LAMBDA a :
        Distance(pos[player], pos[a]) < HIT_DISTANCE_ALIEN_PLAYER)

AlienPlayerHits(objs, pos, aliens, player) ==
    SelectSeq(aliens, LAMBDA a :
        /\ objs[a].alive
        /\ Distance(pos[player], pos[a]) < HIT_DISTANCE_ALIEN_PLAYER)

\* variant: an alien a projectile hit is not looked at for the player
checkCollisions_exclusive(objs, pos, projectiles, aliens, player) ==
    LET ph == ProjectileHits(objs, pos, projectiles, aliens)
        hit == {ph[k].alien : k \in 1..Len(ph)}
    IN  [projectileHits |-> ph,
         alienPlayerHits |->
             SelectSeq(AlienPlayerHits(objs, pos, aliens, player), LAMBDA a : a \notin hit)]

checkCollisions(objs, pos, projectiles, aliens, player) ==
    [projectileHits |-> ProjectileHits(objs, pos, projectiles, aliens),
     alienPlayerHits |-> AlienPlayerHits(objs, pos, aliens, player)]

----------------------------------------------------------------------------
(* Game controller *)

PlayerIndex(ents) == CHOOSE i \in 1..Len(ents) : ents[i].type = "player"
HasPlayer(ents) == \E i \in 1..Len(ents) : ents[i].type = "player"

\* Game.player
PlayerOf(ents) == ents[PlayerIndex(ents)]

\* Game.updateHUD: the report handed to HUDManager.updateHUD
updateHUD(sc, player) ==
    [score |-> sc.score, health |-> player.health,
     wave |-> getCurrentWaveDisplay(sc), total |-> getTotalWaves(sc)]

\* one iteration of the loop over collisionResult.projectileHits
ApplyProjectileHit(objs, sc, hit) ==
    LET o == [objs EXCEPT ![hit.projectile] = kill(@),
                          ![hit.alien] = Alien_takeDamage(@, 1)]
        award == ~o[hit.alien].alive
    IN  [objs |-> o,
         scoring |-> IF award THEN addAlienKillPoints(sc) ELSE sc,
         entry |-> [alien |-> hit.alien, projectile |-> hit.projectile,
                    healthBefore |-> objs[hit.alien].health,
                    healthAfter |-> o[hit.alien].health,
                    aliveBefore |-> objs[hit.alien].alive,
                    aliveAfter |-> o[hit.alien].alive,
                    projectileAlive |-> o[hit.projectile].alive,
                    awarded |-> award]]

RECURSIVE ApplyProjectileHits(_, _, _)
ApplyProjectileHits(hits, objs, sc) ==
    IF hits = << >> THEN [objs |-> objs, scoring |-> sc, log |-> << >>]
    ELSE LET one == ApplyProjectileHit(objs, sc, Head(hits))
             rest == ApplyProjectileHits(Tail(hits), one.objs, one.scoring)
         IN  [objs |-> rest.objs, scoring |-> rest.scoring,
              log |-> <<one.entry>> \o rest.log]

\* variant: an alien that dies from the contact is paid as a kill
ApplyAlienPlayerHit_award(objs, sc, player, alien) ==
    LET o == [objs EXCEPT ![alien] = Alien_takeDamage(@, 1),
                          ![player] = Player_takeDamage(@, 1)]
    IN  [objs |-> o,
         scoring |-> IF ~o[alien].alive THEN addAlienKillPoints(sc) ELSE sc,
         entry |-> [alien |-> alien,
                    alienBefore |-> objs[alien].health, alienAfter |-> o[alien].health,
                    alienAlive |-> o[alien].alive,
                    playerBefore |-> objs[player].health,
                    playerAfter |-> o[player].health]]

\* one iteration of the loop over collisionResult.alienPlayerHits
ApplyAlienPlayerHit(objs, sc, player, alien) ==
    LET o == [objs EXCEPT ![alien] = Alien_takeDamage(@, 1),
                          ![player] = Player_takeDamage(@, 1)]
    IN  [objs |-> o,
         scoring |-> sc,
         entry |-> [alien |-> alien,
                    alienBefore |-> objs[alien].health, alienAfter |-> o[alien].health,
                    alienAlive |-> o[alien].alive,
                    playerBefore |-> objs[player].health,
                    playerAfter |-> o[player].health]]

RECURSIVE ApplyAlienPlayerHits(_, _, _, _)

\* variant: after a contact the player is invulnerable for the rest of the frame
ApplyAlienPlayerHits_window(hits, objs, sc, player) ==
    IF hits = << >> THEN [objs |-> objs, scoring |-> sc, log |-> << >>]
    ELSE LET one == ApplyAlienPlayerHit(objs, sc, player, Head(hits))
             rest == ApplyAlienPlayerHits(Tail(hits), one.objs, one.scoring, player)
             o == [rest.objs EXCEPT ![player] = one.objs[player]]
         IN  [objs |-> o, scoring |-> rest.scoring,
              log |-> <<one.entry>> \o rest.log]

ApplyAlienPlayerHits(hits, objs, sc, player) ==
    IF hits = << >> THEN [objs |-> objs, scoring |-> sc, log |-> << >>]
    ELSE LET one == ApplyAlienPlayerHit(objs, sc, player, Head(hits))
             rest == ApplyAlienPlayerHits(Tail(hits), one.objs, one.scoring, player)
         IN  [objs |-> rest.objs, scoring |-> rest.scoring,
              log |-> <<one.entry>> \o rest.log]

\* the targets of the aliens of a list
Targets(ents) == {ents[i].target : i \in {k \in 1..Len(ents) : ents[k].type = "alien"}}

\* variant: the aliens are snapshot and retargeted first, the spawner advanced after
BeforeUpdate_retargetFirst(deltaTime, shooting) ==
    LET gt == gameTime + deltaTime
        player == PlayerIndex(entities)
        fire == shooting /\ canFire(entities[player], gt, PROJECTILE_FIRE_RATE)
        e1 == IF fire
              THEN [Append(entities, NewProjectile) EXCEPT ![player] = recordFire(@, gt)]
              ELSE entities
        e2 == [i \in 1..Len(e1) |->
                 IF e1[i].type = "alien" THEN setTarget(e1[i]) ELSE e1[i]]
        su == Spawner_update(spawner, deltaTime)
        e3 == IF su.spawned THEN Append(e2, spawnAlien(spawner)) ELSE e2
    IN  [gameTime |-> gt, spawner |-> su.sp, fired |-> fire, spawned |-> su.spawned,
         player |-> player,
         aliens |-> getByType(e1, "alien"),
         ents |-> e3,
         targets |-> Targets(e3)]

\* lines 152-181 of updatePlaying: clock, fire, spawner, retargeting
BeforeUpdate(deltaTime, shooting) ==
    LET gt == gameTime + deltaTime
        player == PlayerIndex(entities)
        fire == shooting /\ canFire(entities[player], gt, PROJECTILE_FIRE_RATE)
        e1 == IF fire
              THEN [Append(entities, NewProjectile) EXCEPT ![player] = recordFire(@, gt)]
              ELSE entities
        su == Spawner_update(spawner, deltaTime)
        e2 == IF su.spawned THEN Append(e1, spawnAlien(spawner)) ELSE e1
        e3 == [i \in 1..Len(e2) |->
                 IF e2[i].type = "alien" THEN setTarget(e2[i]) ELSE e2[i]]
    IN  [gameTime |-> gt, spawner |-> su.sp, fired |-> fire, spawned |-> su.spawned,
         player |-> player,
         aliens |-> getByType(e2, "alien"),
         ents |-> e3,
         targets |-> Targets(e3)]

\* lines 183-203 of updatePlaying: update pass, collision pass, outcomes.
\* b is what BeforeUpdate left, pos the positions after the update pass.
Collide(b, deltaTime, pos) ==
    LET objs == UpdateAll(b.ents, deltaTime, pos)
        held == Held(objs)
        projectiles == SelectSeq(held, LAMBDA i : objs[i].type = "projectile")
        col == checkCollisions(objs, pos, projectiles, b.aliens, b.player)
        ph == ApplyProjectileHits(col.projectileHits, objs, scoring)
        ap == ApplyAlienPlayerHits(col.alienPlayerHits, ph.objs, ph.scoring, b.player)
    IN  [entities |-> [k \in 1..Len(held) |-> ap.objs[held[k]]],
         scoring |-> ap.scoring,
         player |-> ap.objs[b.player],
         hits |-> ph.log,
         contacts |-> ap.log,
         kept |-> held,
         gone |-> Disposed(objs),
         disposed |-> [k \in 1..Len(Disposed(objs)) |-> objs[Disposed(objs)[k]]]]

\* lines 214-230 of updatePlaying: wave completion and progression
WaveProgression(sp, sc, waiting, ents, deltaTime) ==
    LET wc == IF ~waiting THEN isWaveComplete(sp, ents) ELSE [sp |-> sp, result |-> FALSE]
        w1 == waiting \/ wc.result
        d == updateWaveDelay(wc.sp, deltaTime)
        sc1 == nextWave(sc)
        stay == [state |-> "PLAYING", spawner |-> wc.sp, scoring |-> sc, waiting |-> w1,
                 asked |-> ~waiting, reported |-> wc.result, advanced |-> FALSE,
                 started |-> -1, delayed |-> w1,
                 delay |-> IF w1 THEN d.sp.waveDelayTimer ELSE wc.sp.waveDelayTimer]
    IN  IF ~w1 THEN stay
        ELSE IF ~d.result THEN [stay EXCEPT !.spawner = d.sp]
        ELSE IF isAllWavesComplete(sc1)
             THEN [state |-> "WIN", spawner |-> d.sp, scoring |-> sc1, waiting |-> FALSE,
                   asked |-> ~waiting, reported |-> wc.result, advanced |-> TRUE,
                   started |-> -1, delayed |-> TRUE, delay |-> d.sp.waveDelayTimer]
             ELSE [state |-> "PLAYING", spawner |-> startWave(d.sp, sc1.currentWave),
                   scoring |-> sc1, waiting |-> FALSE,
                   asked |-> ~waiting, reported |-> wc.result, advanced |-> TRUE,
                   started |-> sc1.currentWave, delayed |-> TRUE,
                   delay |-> d.sp.waveDelayTimer]

\* variant: the frame goes on to the wave progression whether or not the player lives
FinishFrame_on(sp, c, deltaTime) ==
    [waveStep |-> TRUE] @@
    WaveProgression(sp, c.scoring, waitingForNextWave, c.entities, deltaTime)

\* lines 208-231 of updatePlaying: the game-over check, then the wave progression.
\* sp is the spawner after its update, c what Collide left.
FinishFrame(sp, c, deltaTime) ==
    IF ~c.player.alive
    THEN [state |-> "GAME_OVER", spawner |-> sp, scoring |-> c.scoring,
          waiting |-> waitingForNextWave, waveStep |-> FALSE,
          asked |-> FALSE, reported |-> FALSE, advanced |-> FALSE, started |-> -1,
          delayed |-> FALSE, delay |-> sp.waveDelayTimer]
    ELSE [waveStep |-> TRUE] @@
         WaveProgression(sp, c.scoring, waitingForNextWave, c.entities, deltaTime)

\* the HUDManager's containers; the in-game texts count as the container "hud".
\* The constructor creates all of them visible.
Containers == {"menu", "hud", "gameOver", "win"}

hideHUD(visible) == visible \ {"hud"}
showMenu(visible) == hideHUD((visible \cup {"menu"}) \ {"gameOver", "win"})
showGameOver(visible) == hideHUD((visible \cup {"gameOver"}) \ {"menu", "win"})
showWin(visible) == hideHUD((visible \cup {"win"}) \ {"menu", "gameOver"})

\* variant: the end screens are left as they are
showHUD_over(visible) == (visible \cup {"hud"}) \ {"menu"}

showHUD(visible) == (visible \cup {"hud"}) \ {"menu", "gameOver", "win"}

\* Game.gameOver / Game.winGame: the containers that are visible afterwards
ScreenAfter(st) ==
    IF st = "GAME_OVER" THEN showGameOver(screen)
    ELSE IF st = "WIN" THEN showWin(screen) ELSE screen

\* the aliens spawned in the waves of a history: the spawnAlien calls so far
RECURSIVE SumSpawned(_)
SumSpawned(ws) ==
    IF ws = << >> THEN 0 ELSE Head(ws).spawned + SumSpawned(Tail(ws))

\* the history of the session's waves after a frame
WavesAfter(spawned, f) ==
    LET n == Len(waves)
        w1 == IF spawned THEN [waves EXCEPT ![n].spawned = @ + 1] ELSE waves
        w2 == IF f.reported THEN [w1 EXCEPT ![n].complete = TRUE] ELSE w1
    IN  IF f.started >= 0
        THEN Append(w2, [wave |-> f.started, spawned |-> 0, complete |-> FALSE])
        ELSE w2

\* the objects of a list that are held although they are not alive
Stale(ents) == [k \in 1..Len(Disposed(ents)) |-> ents[Disposed(ents)[k]]]

NoFrame(op) ==
    [op |-> op, from |-> state, score |-> scoring.score,
     hits |-> << >>, contacts |-> << >>,
     shooting |-> FALSE, fired |-> FALSE, spawned |-> FALSE, waveStep |-> FALSE,
     asked |-> FALSE, reported |-> FALSE, advanced |-> FALSE, started |-> -1,
     delayed |-> FALSE, delay |-> spawner.waveDelayTimer,
     targets |-> {}, reports |-> << >>, kept |-> << >>, disposed |-> << >>,
     stale |-> << >>, gone |-> << >>, finalScore |-> last.finalScore]

----------------------------------------------------------------------------
(* Frame inputs *)

NumProjectiles == Len(getByType(entities, "projectile"))

ShootInputs ==
    IF \/ profile = "free" /\ NumProjectiles < MaxProjectiles
       \/ /\ profile = "evasive"
          /\ \A i \in 1..Len(entities) :
                 entities[i].type = "projectile" => ~entities[i].alive
    THEN BOOLEAN ELSE {FALSE}

\* the positions of the entities ents after the update pass; only distances
\* matter, so the player's cell is taken as the origin of the line
PositionInputs(ents, player) ==
    {pos \in [1..Len(ents) -> ProjectilePositions] :
        \A i \in 1..Len(ents) :
            /\ ents[i].type = "player" => pos[i] = 0
            /\ ents[i].type = "alien" => pos[i] \in Positions
            /\ (profile = "evasive" /\ ents[i].type = "alien")
                  => Distance(pos[player], pos[i]) >= HIT_DISTANCE_ALIEN_PLAYER}

FrameLimit == IF profile = "free" THEN FreeFrames ELSE MaxFrames

----------------------------------------------------------------------------
(* Operations *)

Init ==
    /\ state = "MENU"
    /\ gameTime = 0
    /\ waitingForNextWave = FALSE
    /\ entities = << >>
    /\ spawner = Spawner_reset(<< >>)
    /\ scoring = Scoring_reset(<< >>)
    /\ screen = showMenu(Containers)
    /\ profile = "free"
    /\ waves = << >>
    /\ last = [op |-> "construct", from |-> "MENU", score |-> 0,
               hits |-> << >>, contacts |-> << >>,
               shooting |-> FALSE, fired |-> FALSE, spawned |-> FALSE,
               waveStep |-> FALSE, asked |-> FALSE, reported |-> FALSE,
               advanced |-> FALSE, started |-> -1,
               delayed |-> FALSE, delay |-> 0, targets |-> {}, reports |-> << >>,
               kept |-> << >>, disposed |-> << >>, stale |-> << >>,
               gone |-> << >>, finalScore |-> -1]

\* Game.startGame
startGame ==
    /\ state' = "PLAYING"
    /\ gameTime' = 0
    /\ waitingForNextWave' = FALSE
    /\ entities' = Append(EntityManager_clear(entities), NewPlayer)
    /\ scoring' = Scoring_reset(scoring)
    /\ spawner' = startWave(Spawner_reset(spawner), 0)
    /\ screen' = showHUD(screen)
    /\ profile' \in Profiles
    /\ waves' = <<[wave |-> 0, spawned |-> 0, complete |-> FALSE]>>
    /\ last' = [NoFrame("startGame") EXCEPT
                    !.started = 0, !.delay = 0, !.disposed = entities,
                    !.gone = Indices(entities), !.finalScore = -1,
                    !.reports = <<updateHUD(Scoring_reset(scoring), NewPlayer)>>]

\* the menu's start button
StartGame == "menu" \in screen /\ startGame

\* the PLAY AGAIN button of the game-over and win screens
RestartGame == screen \cap {"gameOver", "win"} # {} /\ startGame

\* Game.updatePlaying
updatePlaying(deltaTime) ==
    /\ gameTime + deltaTime <= FrameLimit * deltaTime
    /\ \E shooting \in ShootInputs :
       \E b \in {BeforeUpdate(deltaTime, shooting)} :
       \E pos \in PositionInputs(b.ents, b.player) :
       \E c \in {Collide(b, deltaTime, pos)} :
       \E f \in {FinishFrame(b.spawner, c, deltaTime)} :
           /\ state' = f.state
           /\ gameTime' = b.gameTime
           /\ waitingForNextWave' = f.waiting
           /\ entities' = c.entities
           /\ spawner' = f.spawner
           /\ scoring' = f.scoring
           /\ screen' = ScreenAfter(f.state)
           /\ waves' = WavesAfter(b.spawned, f)
           /\ last' = [op |-> "playing", from |-> state, score |-> scoring.score,
                       hits |-> c.hits,
                       contacts |-> c.contacts, shooting |-> shooting,
                       fired |-> b.fired,
                       spawned |-> b.spawned, waveStep |-> f.waveStep,
                       asked |-> f.asked,
                       reported |-> f.reported, advanced |-> f.advanced,
                       started |-> f.started,
                       delayed |-> f.delayed, delay |-> f.delay,
                       targets |-> b.targets,
                       reports |-> <<updateHUD(c.scoring, c.player)>>,
                       kept |-> c.kept, disposed |-> c.disposed,
                       stale |-> Stale(entities), gone |-> c.gone,
                       finalScore |-> IF f.state = "PLAYING" THEN -1
                                      ELSE f.scoring.score]
           /\ UNCHANGED profile

\* variant: a frame in GAME_OVER or WIN goes back to the menu
Update_timeout ==
    \E deltaTime \in DeltaTimes :
        IF state = "PLAYING" /\ HasPlayer(entities)
        THEN updatePlaying(deltaTime)
        ELSE /\ last' = NoFrame("idle")
             /\ state' = IF state = "MENU" THEN state ELSE "MENU"
             /\ UNCHANGED <<gameTime, waitingForNextWave, entities, spawner,
                            scoring, screen, profile, waves>>

\* variant: the game clock runs on while no session is played
Update_clock ==
    \E deltaTime \in DeltaTimes :
        IF state = "PLAYING" /\ HasPlayer(entities)
        THEN updatePlaying(deltaTime)
        ELSE /\ last' = NoFrame("idle")
             /\ gameTime' = IF state = "MENU" THEN gameTime ELSE gameTime + deltaTime
             /\ UNCHANGED <<state, waitingForNextWave, entities, spawner,
                            scoring, screen, profile, waves>>

\* Game.update
Update ==
    \E deltaTime \in DeltaTimes :
        IF state = "PLAYING" /\ HasPlayer(entities)
        THEN updatePlaying(deltaTime)
        ELSE /\ last' = NoFrame("idle")
             /\ UNCHANGED <<state, gameTime, waitingForNextWave, entities, spawner,
                            scoring, screen, profile, waves>>

Next == StartGame \/ RestartGame \/ Update

Spec == Init /\ [][Next]_vars

\* what every PLAYING frame does first: the game clock advances by deltaTime
ClockAdvance ==
    \E deltaTime \in DeltaTimes :
        /\ state = "PLAYING"
        /\ HasPlayer(entities)
        /\ gameTime + deltaTime <= FrameLimit * deltaTime
        /\ gameTime' = gameTime + deltaTime

\* the render loop does not stop: while a PLAYING frame can run, one is run
SpecLive == Init /\ [][Next]_vars /\ WF_gameTime(ClockAdvance)

----------------------------------------------------------------------------
(* Sessions of short frames: the render loop of a fast display, where several *)
(* frames fall into one fire-rate cooldown                                    *)

\* the deltaTime a short frame draws, in ticks: 0.1 s and 0.15 s
ShortDeltaTimes == {2, 3}

\* the menu's start button, the session drawing every input
StartFree == StartGame /\ profile' = "free"

\* Game.update on a short frame
UpdateShort ==
    \E deltaTime \in ShortDeltaTimes :
        /\ state = "PLAYING"
        /\ HasPlayer(entities)
        /\ updatePlaying(deltaTime)

NextShort == StartFree \/ UpdateShort

SpecShort == Init /\ [][NextShort]_vars

----------------------------------------------------------------------------
(* The Spawner System driven on its own: any sequence of calls of its       *)
(* public methods on a spawner and the Entity Manager it was built with     *)

\* SpawnerSystem.startWave called with any index, also beyond the wave table
CallStartWave ==
    \E waveNumber \in 0..MaxWaveIndex :
        /\ spawner' = startWave(spawner, waveNumber)
        /\ last' = [op |-> "startWave", waveNumber |-> waveNumber]
        /\ UNCHANGED <<state, gameTime, waitingForNextWave, entities, scoring,
                       screen, profile, waves>>

\* SpawnerSystem.update, with the alien it hands to the Entity Manager
CallSpawnerUpdate ==
    \E deltaTime \in DeltaTimes :
    \E su \in {Spawner_update(spawner, deltaTime)} :
        /\ Len(entities) < MaxHeld
        /\ spawner' = su.sp
        /\ entities' = IF su.spawned THEN Append(entities, spawnAlien(spawner))
                                     ELSE entities
        /\ last' = [op |-> "spawnerUpdate", spawned |-> su.spawned]
        /\ UNCHANGED <<state, gameTime, waitingForNextWave, scoring,
                       screen, profile, waves>>

\* SpawnerSystem.reset and EntityManager.clear, as a new session calls them
CallSpawnerReset ==
    /\ spawner' = Spawner_reset(spawner)
    /\ entities' = EntityManager_clear(entities)
    /\ last' = [op |-> "reset"]
    /\ UNCHANGED <<state, gameTime, waitingForNextWave, scoring,
                   screen, profile, waves>>

NextSpawner == CallStartWave \/ CallSpawnerUpdate \/ CallSpawnerReset

SpecSpawner == Init /\ [][NextSpawner]_vars

----------------------------------------------------------------------------
(* The wave-complete mark: the spawner's methods called in any order while  *)
(* aliens are added to and cleared from the Entity Manager it was built     *)
(* with.  last.marked tells whether isWaveComplete has returned true since  *)
(* the last startWave that took effect or reset.                            *)

InitMark ==
    /\ state = "PLAYING"
    /\ gameTime = 0
    /\ waitingForNextWave = FALSE
    /\ entities = << >>
    /\ spawner = Spawner_reset(<< >>)
    /\ scoring = Scoring_reset(<< >>)
    /\ screen = {"hud"}
    /\ profile = "free"
    /\ waves = << >>
    /\ last = [op |-> "construct", marked |-> FALSE, was |-> FALSE,
               result |-> FALSE, waveNumber |-> -1]

\* SpawnerSystem.startWave
MarkStartWave ==
    \E waveNumber \in 0..MaxWaveIndex :
        /\ spawner' = startWave(spawner, waveNumber)
        /\ last' = [op |-> "startWave", was |-> last.marked,
                    marked |-> IF waveNumber >= Len(WAVES) THEN last.marked ELSE FALSE,
                    result |-> FALSE, waveNumber |-> waveNumber]
        /\ UNCHANGED <<state, gameTime, waitingForNextWave, entities, scoring,
                       screen, profile, waves>>

\* SpawnerSystem.update, with the alien it hands to the Entity Manager
MarkSpawnerUpdate ==
    \E deltaTime \in DeltaTimes :
    \E su \in {Spawner_update(spawner, deltaTime)} :
        /\ Len(entities) < MaxHeld
        /\ spawner' = su.sp
        /\ entities' = IF su.spawned THEN EntityManager_add(entities, spawnAlien(spawner))
                                     ELSE entities
        /\ last' = [op |-> "update", was |-> last.marked, marked |-> last.marked,
                    result |-> su.spawned, waveNumber |-> -1]
        /\ UNCHANGED <<state, gameTime, waitingForNextWave, scoring,
                       screen, profile, waves>>

\* SpawnerSystem.isWaveComplete
MarkIsWaveComplete ==
    \E wc \in {isWaveComplete(spawner, entities)} :
        /\ spawner' = wc.sp
        /\ last' = [op |-> "isWaveComplete", was |-> last.marked,
                    marked |-> last.marked \/ wc.result,
                    result |-> wc.result, waveNumber |-> -1]
        /\ UNCHANGED <<state, gameTime, waitingForNextWave, entities, scoring,
                       screen, profile, waves>>

\* SpawnerSystem.reset
MarkReset ==
    /\ spawner' = Spawner_reset(spawner)
    /\ last' = [op |-> "reset", was |-> last.marked, marked |-> FALSE,
                result |-> FALSE, waveNumber |-> -1]
    /\ UNCHANGED <<state, gameTime, waitingForNextWave, entities, scoring,
                   screen, profile, waves>>

\* EntityManager.add of an alien by another caller
MarkAdd ==
    /\ Len(entities) < MaxHeld
    /\ entities' = EntityManager_add(entities, NewAlien(ALIEN_BASE_SPEED))
    /\ last' = [op |-> "add", was |-> last.marked, marked |-> last.marked,
                result |-> FALSE, waveNumber |-> -1]
    /\ UNCHANGED <<state, gameTime, waitingForNextWave, spawner, scoring,
                   screen, profile, waves>>

\* EntityManager.clear
MarkClear ==
    /\ entities' = EntityManager_clear(entities)
    /\ last' = [op |-> "clear", was |-> last.marked, marked |-> last.marked,
                result |-> FALSE, waveNumber |-> -1]
    /\ UNCHANGED <<state, gameTime, waitingForNextWave, spawner, scoring,
                   screen, profile, waves>>

NextMark ==
    \/ MarkStartWave
    \/ MarkSpawnerUpdate
    \/ MarkIsWaveComplete
    \/ MarkReset
    \/ MarkAdd
    \/ MarkClear

SpecMark == InitMark /\ [][NextMark]_vars

----------------------------------------------------------------------------
(* The spawn timer: startWave, update and reset called in any order with    *)
(* frames shorter and longer than the spawn intervals.  last.since is the   *)
(* frame time handed to update since the last startWave that took effect    *)
(* or the last spawn, measured apart from the spawner's own timer.          *)

\* the deltaTime of a frame, in ticks: 0.3 s, 1 s and 3.5 s
SpawnDeltaTimes == {6, 20, 70}

InitTimer ==
    /\ state = "PLAYING"
    /\ gameTime = 0
    /\ waitingForNextWave = FALSE
    /\ entities = << >>
    /\ spawner = Spawner_reset(<< >>)
    /\ scoring = Scoring_reset(<< >>)
    /\ screen = {"hud"}
    /\ profile = "free"
    /\ waves = << >>
    /\ last = [op |-> "construct", since |-> 0, elapsed |-> 0, added |-> 0,
               deltaTime |-> 0, wave |-> 0]

\* SpawnerSystem.startWave
TimerStartWave ==
    \E waveNumber \in 0..MaxWaveIndex :
        /\ spawner' = startWave(spawner, waveNumber)
        /\ last' = [op |-> "startWave",
                    since |-> IF waveNumber >= Len(WAVES) THEN last.since ELSE 0,
                    elapsed |-> 0, added |-> 0, deltaTime |-> 0,
                    wave |-> waveNumber]
        /\ UNCHANGED <<state, gameTime, waitingForNextWave, entities, scoring,
                       screen, profile, waves>>

\* SpawnerSystem.update, with the aliens it hands to the Entity Manager
TimerUpdate ==
    \E deltaTime \in SpawnDeltaTimes :
    \E su \in {Spawner_update(spawner, deltaTime)} :
        /\ Len(entities) < MaxHeld
        /\ spawner' = su.sp
        /\ entities' = IF su.spawned THEN EntityManager_add(entities, spawnAlien(spawner))
                                     ELSE entities
        /\ last' = [op |-> "update",
                    since |-> IF su.spawned THEN 0
                              ELSE Min(last.since + deltaTime, MaxElapsed),
                    elapsed |-> Min(last.since + deltaTime, MaxElapsed),
                    added |-> Len(entities') - Len(entities),
                    deltaTime |-> deltaTime,
                    wave |-> spawner.currentWave]
        /\ UNCHANGED <<state, gameTime, waitingForNextWave, scoring,
                       screen, profile, waves>>

\* SpawnerSystem.reset and EntityManager.clear, as a new session calls them
TimerReset ==
    /\ spawner' = Spawner_reset(spawner)
    /\ entities' = EntityManager_clear(entities)
    /\ last' = [op |-> "reset", since |-> 0, elapsed |-> 0, added |-> 0,
                deltaTime |-> 0, wave |-> 0]
    /\ UNCHANGED <<state, gameTime, waitingForNextWave, scoring,
                   screen, profile, waves>>

NextTimer == TimerStartWave \/ TimerUpdate \/ TimerReset

SpecSpawnTimer == InitTimer /\ [][NextTimer]_vars

----------------------------------------------------------------------------
(* A wave being spawned: after startWave the render loop keeps calling      *)
(* update, with frames shorter and longer than the spawn interval           *)

\* the spawner after the startWave of any configured wave
InitWave ==
    /\ state = "PLAYING"
    /\ gameTime = 0
    /\ waitingForNextWave = FALSE
    /\ entities = << >>
    /\ \E waveNumber \in 0..(Len(WAVES) - 1) :
           spawner = startWave(Spawner_reset(<< >>), waveNumber)
    /\ scoring = Scoring_reset(<< >>)
    /\ screen = {"hud"}
    /\ profile = "free"
    /\ waves = << >>
    /\ last = [op |-> "startWave", added |-> 0, deltaTime |-> 0]

\* SpawnerSystem.update in a frame of the render loop
WaveUpdate ==
    \E deltaTime \in SpawnDeltaTimes :
    \E su \in {Spawner_update(spawner, deltaTime)} :
        /\ spawner' = su.sp
        /\ entities' = IF su.spawned THEN EntityManager_add(entities, spawnAlien(spawner))
                                     ELSE entities
        /\ last' = [op |-> "update", added |-> Len(entities') - Len(entities),
                    deltaTime |-> deltaTime]
        /\ UNCHANGED <<state, gameTime, waitingForNextWave, scoring,
                       screen, profile, waves>>

NextWave == WaveUpdate

\* the render loop does not stop: a frame that can change something is run
SpecWave == InitWave /\ [][NextWave]_vars /\ WF_vars(WaveUpdate)

----------------------------------------------------------------------------
(* The collision pass on its own: checkCollisions, and lines 184-203 of     *)
(* updatePlaying, applied once to any list of entities a frame can find     *)
(* held                                                                     *)

\* what a frame can find held besides the player: aliens and projectiles,
\* alive or killed by the frame before and not evicted yet
DeadAlien == Alien_takeDamage(setTarget(NewAlien(ALIEN_BASE_SPEED)), ALIEN_HEALTH)
HeldAliveOrDead ==
    {setTarget(NewAlien(ALIEN_BASE_SPEED)), DeadAlien, NewProjectile, kill(NewProjectile)}

\* the player, unhurt or at its last health point
HeldPlayers == {NewPlayer, [NewPlayer EXCEPT !.health = 1]}

\* the player, added first by startGame, and up to MaxHeld - 1 other entities
CollisionLists ==
    {<<pl>> \o others :
        pl \in HeldPlayers,
        others \in UNION {[1..n -> HeldAliveOrDead] : n \in 0..(MaxHeld - 1)}}

\* positions on a line through the player: at the player, just inside and just
\* outside projectile range, just outside contact range; for a projectile also
\* beyond the extended bounds
CollisionPositions ==
    {0, HIT_DISTANCE_PROJECTILE_ALIEN - 1, HIT_DISTANCE_PROJECTILE_ALIEN,
     HIT_DISTANCE_ALIEN_PLAYER}

CollisionInputs(ents) ==
    {pos \in [1..Len(ents) -> CollisionPositions \cup {OutOfBounds}] :
        \A i \in 1..Len(ents) :
            /\ ents[i].type = "player" => pos[i] = 0
            /\ ents[i].type = "alien" => pos[i] \in CollisionPositions}

InitCollision ==
    /\ state = "PLAYING"
    /\ gameTime = 0
    /\ waitingForNextWave = FALSE
    /\ entities \in CollisionLists
    /\ spawner = Spawner_reset(<< >>)
    /\ scoring = Scoring_reset(<< >>)
    /\ screen = {"hud"}
    /\ profile = "free"
    /\ waves = << >>
    /\ last = [op |-> "construct"]

\* CollisionSystem.checkCollisions on everything held
CallCheckCollisions ==
    /\ last.op = "construct"
    /\ \E pos \in CollisionInputs(entities) :
           last' = [op |-> "checkCollisions", pos |-> pos,
                    result |-> checkCollisions(entities, pos,
                                               getByType(entities, "projectile"),
                                               getByType(entities, "alien"),
                                               PlayerIndex(entities))]
    /\ UNCHANGED <<state, gameTime, waitingForNextWave, entities, spawner, scoring,
                   screen, profile, waves>>

\* lines 184-203 of updatePlaying on the held entities
CollisionFrame ==
    /\ last.op = "construct"
    /\ \E deltaTime \in DeltaTimes :
       \E pos \in CollisionInputs(entities) :
       \E b \in {[ents |-> entities, aliens |-> getByType(entities, "alien"),
                  player |-> PlayerIndex(entities)]} :
       \E c \in {Collide(b, deltaTime, pos)} :
           /\ entities' = c.entities
           /\ scoring' = c.scoring
           /\ last' = [op |-> "frame", before |-> entities, pos |-> pos,
                       updated |-> UpdateAll(entities, deltaTime, pos),
                       hits |-> c.hits, contacts |-> c.contacts]
    /\ UNCHANGED <<state, gameTime, waitingForNextWave, spawner,
                   screen, profile, waves>>

NextCollision == CallCheckCollisions \/ CollisionFrame

SpecCollision == InitCollision /\ [][NextCollision]_vars

----------------------------------------------------------------------------
(* One projectile on its own, from its construction: any sequence of update *)
(* and kill calls                                                           *)

\* the deltaTime of an update call, in ticks: 0.05 s and 1 s
ProjectileDeltaTimes == {1, 20}

\* a coordinate after the move: inside, on the extended bound, beyond it
ProjectileCoordinates ==
    {0, ARENA_SIZE + 20, OutOfBounds, -(ARENA_SIZE + 20), -OutOfBounds}

InitProjectile ==
    /\ state = "PLAYING"
    /\ gameTime = 0
    /\ waitingForNextWave = FALSE
    /\ entities = <<NewProjectile>>
    /\ spawner = Spawner_reset(<< >>)
    /\ scoring = Scoring_reset(<< >>)
    /\ screen = {"hud"}
    /\ profile = "free"
    /\ waves = << >>
    /\ last = [op |-> "construct", killed |-> FALSE, outside |-> FALSE]

\* Projectile.update; the calls stop once the lifetime has run out
CallProjectileUpdate ==
    /\ entities[1].lifetime <= PROJECTILE_LIFETIME
    /\ \E deltaTime \in ProjectileDeltaTimes :
       \E x \in ProjectileCoordinates :
       \E z \in ProjectileCoordinates :
           /\ entities' = <<Projectile_update(entities[1], deltaTime, x, z)>>
           /\ last' = [op |-> "update", before |-> entities[1], x |-> x, z |-> z,
                       killed |-> last.killed,
                       outside |-> (last.outside \/ Abs(x) > ARENA_SIZE + 20
                                                \/ Abs(z) > ARENA_SIZE + 20)]
    /\ UNCHANGED <<state, gameTime, waitingForNextWave, spawner, scoring,
                   screen, profile, waves>>

\* Projectile.kill
CallKill ==
    /\ entities' = <<kill(entities[1])>>
    /\ last' = [op |-> "kill", before |-> entities[1],
                killed |-> TRUE, outside |-> last.outside]
    /\ UNCHANGED <<state, gameTime, waitingForNextWave, spawner, scoring,
                   screen, profile, waves>>

NextProjectile == CallProjectileUpdate \/ CallKill

SpecProjectile == InitProjectile /\ [][NextProjectile]_vars

----------------------------------------------------------------------------
(* The Entity Manager on its own: any sequence of update and remove calls   *)
(* on a list of distinct objects                                            *)

\* every add of the program passes an object constructed for it, so the held
\* objects are distinct: the identity of an object is its rank of insertion
WithIdentity(ents) == [i \in 1..Len(ents) |-> [id |-> i] @@ ents[i]]

\* an object that was never added
NeverAdded == [id |-> 0] @@ NewProjectile

\* the positions after the update pass: a projectile inside or out of bounds
ManagerInputs(ents) ==
    {pos \in [1..Len(ents) -> {0, OutOfBounds}] :
        \A i \in 1..Len(ents) : ents[i].type # "projectile" => pos[i] = 0}

InitManager ==
    /\ state = "PLAYING"
    /\ gameTime = 0
    /\ waitingForNextWave = FALSE
    /\ \E ents \in CollisionLists : entities = WithIdentity(ents)
    /\ spawner = Spawner_reset(<< >>)
    /\ scoring = Scoring_reset(<< >>)
    /\ screen = {"hud"}
    /\ profile = "free"
    /\ waves = << >>
    /\ last = [op |-> "construct"]

\* EntityManager.update
CallUpdate ==
    /\ \E deltaTime \in DeltaTimes :
       \E pos \in ManagerInputs(entities) :
       \E r \in {EntityManager_update(entities, deltaTime, pos)} :
           /\ entities' = r.entities
           /\ last' = [op |-> "update", before |-> entities, deltaTime |-> deltaTime,
                       pos |-> pos, disposed |-> r.disposed]
    /\ UNCHANGED <<state, gameTime, waitingForNextWave, spawner, scoring,
                   screen, profile, waves>>

\* EntityManager.remove of a held object or of one that was never added
CallRemove ==
    /\ \E e \in {entities[i] : i \in 1..Len(entities)} \cup {NeverAdded} :
       \E r \in {EntityManager_remove(entities, e)} :
           /\ entities' = r.entities
           /\ last' = [op |-> "remove", entity |-> e, before |-> entities,
                       disposed |-> r.disposed, again |-> FALSE,
                       disposals |-> Len(r.disposed)]
    /\ UNCHANGED <<state, gameTime, waitingForNextWave, spawner, scoring,
                   screen, profile, waves>>

\* EntityManager.remove called once more with the object of the call before
CallRemoveAgain ==
    /\ last.op = "remove"
    /\ \E r \in {EntityManager_remove(entities, last.entity)} :
           /\ entities' = r.entities
           /\ last' = [op |-> "remove", entity |-> last.entity, before |-> entities,
                       disposed |-> r.disposed, again |-> TRUE,
                       disposals |-> last.disposals + Len(r.disposed)]
    /\ UNCHANGED <<state, gameTime, waitingForNextWave, spawner, scoring,
                   screen, profile, waves>>

NextManager == CallUpdate \/ CallRemove \/ CallRemoveAgain

SpecManager == InitManager /\ [][NextManager]_vars

----------------------------------------------------------------------------
(* The player's movement on its own, from the construction of the player:   *)
(* any sequence of updateMovement calls                                     *)

\* the deltaTime of a call, in ticks: 1.25 s, and a stall of 12.5 s that
\* carries the player farther than the arena is wide
PlayerDeltaTimes == {25, 250}

\* the movement vector of the input state: idle, along an axis, or both axes
MovementInputs == {-1, 0, 1} \X {-1, 0, 1}

InitPlayer ==
    /\ state = "PLAYING"
    /\ gameTime = 0
    /\ waitingForNextWave = FALSE
    /\ entities = <<[x |-> 0, z |-> 0] @@ NewPlayer>>
    /\ spawner = Spawner_reset(<< >>)
    /\ scoring = Scoring_reset(<< >>)
    /\ screen = {"hud"}
    /\ profile = "free"
    /\ waves = << >>
    /\ last = [op |-> "construct"]

\* Player.updateMovement
CallUpdateMovement ==
    /\ \E deltaTime \in PlayerDeltaTimes :
       \E movement \in MovementInputs :
           /\ entities' = <<updateMovement(entities[1], deltaTime, movement)>>
           /\ last' = [op |-> "updateMovement", before |-> entities[1],
                       deltaTime |-> deltaTime, movement |-> movement]
    /\ UNCHANGED <<state, gameTime, waitingForNextWave, spawner, scoring,
                   screen, profile, waves>>

NextPlayer == CallUpdateMovement

SpecPlayer == InitPlayer /\ [][NextPlayer]_vars

-----------------------------------------------------------------------------
(* An alien driven on its own: takeDamage calls on one alien *)

DamageAmounts == {-1, 0, 1, 2}

\* the alien as its constructor leaves it, with the speed of any wave
InitAlien ==
    /\ state = "PLAYING"
    /\ gameTime = 0
    /\ waitingForNextWave = FALSE
    /\ \E w \in 0..(Len(WAVES) - 1) :
           entities = <<spawnAlien([currentWave |-> w])>>
    /\ spawner = Spawner_reset(<< >>)
    /\ scoring = Scoring_reset(<< >>)
    /\ screen = {"hud"}
    /\ profile = "free"
    /\ waves = << >>
    /\ last = [op |-> "construct"]

\* Alien.takeDamage
CallTakeDamage ==
    /\ \E amount \in DamageAmounts :
           /\ entities[1].health - amount \in -MaxAlienHealth..MaxAlienHealth
           /\ entities' = <<Alien_takeDamage(entities[1], amount)>>
           /\ last' = [op |-> "takeDamage", before |-> entities[1],
                       amount |-> amount]
    /\ UNCHANGED <<state, gameTime, waitingForNextWave, spawner, scoring,
                   screen, profile, waves>>

\* Alien.setTarget
CallSetTarget ==
    /\ entities' = <<setTarget(entities[1])>>
    /\ last' = [op |-> "setTarget", before |-> entities[1]]
    /\ UNCHANGED <<state, gameTime, waitingForNextWave, spawner, scoring,
                   screen, profile, waves>>

NextAlien == CallTakeDamage \/ CallSetTarget

SpecAlien == InitAlien /\ [][NextAlien]_vars

-----------------------------------------------------------------------------
(* The scoring system driven on its own *)

\* the scoring system as its field initialisers leave it; calls counts the
\* nextWave calls since the counter was last 0 by construction or reset
InitScoring ==
    /\ state = "PLAYING"
    /\ gameTime = 0
    /\ waitingForNextWave = FALSE
    /\ entities = << >>
    /\ spawner = Spawner_reset(<< >>)
    /\ scoring = [score |-> 0, currentWave |-> 0]
    /\ screen = {"hud"}
    /\ profile = "free"
    /\ waves = << >>
    /\ last = [op |-> "construct", calls |-> 0]

\* ScoringSystem.nextWave
CallNextWave ==
    /\ last.calls < MaxNextWaves
    /\ scoring' = nextWave(scoring)
    /\ last' = [op |-> "nextWave", calls |-> last.calls + 1]
    /\ UNCHANGED <<state, gameTime, waitingForNextWave, entities, spawner,
                   screen, profile, waves>>

\* ScoringSystem.addAlienKillPoints
CallAddAlienKillPoints ==
    /\ scoring.score < MaxKills * POINTS_PER_ALIEN
    /\ scoring' = addAlienKillPoints(scoring)
    /\ last' = [op |-> "addAlienKillPoints", calls |-> last.calls]
    /\ UNCHANGED <<state, gameTime, waitingForNextWave, entities, spawner,
                   screen, profile, waves>>

\* ScoringSystem.reset
CallScoringReset ==
    /\ scoring' = Scoring_reset(scoring)
    /\ last' = [op |-> "reset", calls |-> 0]
    /\ UNCHANGED <<state, gameTime, waitingForNextWave, entities, spawner,
                   screen, profile, waves>>

NextScoring == CallNextWave \/ CallAddAlienKillPoints \/ CallScoringReset

SpecScoring == InitScoring /\ [][NextScoring]_vars

----------------------------------------------------------------------------
(* Properties *)

\* C1: the state only changes along MENU->PLAYING, PLAYING->GAME_OVER,
\* PLAYING->WIN, GAME_OVER->PLAYING and WIN->PLAYING; update alone never moves
\* the state out of MENU, GAME_OVER or WIN; the state never returns to MENU.
C1_Transitions ==
    [][/\ state' # state =>
            <<state, state'>> \in {<<"MENU", "PLAYING">>, <<"PLAYING", "GAME_OVER">>,
                                   <<"PLAYING", "WIN">>, <<"GAME_OVER", "PLAYING">>,
                                   <<"WIN", "PLAYING">>}
       /\ (last'.op \in {"idle", "playing"} /\ state \in {"MENU", "GAME_OVER", "WIN"}) => state' = state
       /\ state' = "MENU" => state = "MENU"]_vars

\* update has run in WIN and left the state there
C1_Witness == state = "WIN" /\ last.op = "idle"

\* C2: after start/restart, from any prior state, the session state is the same:
\* PLAYING, score 0, wave counter 0, clock 0, not waiting, exactly one entity
\* (a fresh Player), the spawner active on wave 0 with nothing spawned and both
\* timers 0.
C2_StartState ==
    last.op = "startGame" =>
        /\ state = "PLAYING"
        /\ scoring.score = 0
        /\ scoring.currentWave = 0
        /\ gameTime = 0
        /\ waitingForNextWave = FALSE
        /\ Len(entities) = 1
        /\ entities[1].type = "player"
        /\ entities[1].alive
        /\ entities[1].health = PLAYER_HEALTH
        /\ entities[1].lastFireTime = 0
        /\ spawner.waveActive
        /\ spawner.currentWave = 0
        /\ spawner.aliensSpawned = 0
        /\ spawner.spawnTimer = 0
        /\ spawner.waveDelayTimer = 0

\* a restart out of GAME_OVER, where the dead player and aliens were still held
C2_Witness == last.op = "startGame" /\ last.from = "GAME_OVER"

\* C3: a PLAYING frame that leaves the player not alive ends in GAME_OVER and
\* runs no wave step (no nextWave, no startWave, no WIN); the state is GAME_OVER
\* only when the player's health is 0.
C3_GameOver ==
    /\ [](state = "GAME_OVER" => PlayerOf(entities).health = 0)
    /\ [][(last'.op = "playing" /\ ~PlayerOf(entities').alive) =>
            /\ state' = "GAME_OVER"
            /\ ~last'.waveStep
            /\ scoring'.currentWave = scoring.currentWave
            /\ spawner'.currentWave = spawner.currentWave
            /\ spawner'.waveDelayTimer = spawner.waveDelayTimer
            /\ spawner'.waveComplete = spawner.waveComplete
            /\ waitingForNextWave' = waitingForNextWave
            /\ waves' = WavesAfter(last'.spawned, NoFrame("none"))]_vars

\* the frame in which the player died
C3_Witness == state = "GAME_OVER" /\ last.op = "playing" /\ ~PlayerOf(entities).alive

\* C4: within a session the indices passed to startWave are 0, 1, 2, ... each
\* once, and wave k+1 is started only after wave k was reported complete.
C4_WavesInOrder ==
    /\ \A k \in 1..Len(waves) : waves[k].wave = k - 1
    /\ \A k \in 1..(Len(waves) - 1) : waves[k].complete
    /\ state # "MENU" => (Len(waves) >= 1 /\ spawner.currentWave = Len(waves) - 1)

\* the last configured wave has been started
C4_Witness == Len(waves) = Len(WAVES) /\ state = "PLAYING"

\* C5: WIN is entered only when the scoring wave counter has just reached
\* WAVES.length after every configured wave spawned its full count and was
\* reported complete; in WIN the player is alive and no alien is held.
C5_Win ==
    /\ [](state = "WIN" =>
            /\ scoring.currentWave = Len(WAVES)
            /\ Len(waves) = Len(WAVES)
            /\ \A k \in 1..Len(waves) :
                   waves[k].spawned = WAVES[k].count /\ waves[k].complete
            /\ PlayerOf(entities).alive
            /\ PlayerOf(entities).health > 0
            /\ getByType(entities, "alien") = << >>)
    /\ [][(state' = "WIN" /\ state # "WIN") =>
            /\ scoring.currentWave = Len(WAVES) - 1
            /\ scoring'.currentWave = Len(WAVES)]_vars

\* the frame that entered WIN
C5_Witness == state = "WIN" /\ last.op = "playing"

\* C6: each projectile hit applied in a frame kills its projectile, damages its
\* alien by 1, and awards kill points only if that hit's damage brings the alien
\* from alive to not alive, also when several projectiles are recorded against
\* the same alien in one frame.
C6_AwardOnlyOnKill ==
    \A k \in 1..Len(last.hits) :
        /\ ~last.hits[k].projectileAlive
        /\ last.hits[k].healthAfter = last.hits[k].healthBefore - 1
        /\ last.hits[k].awarded => (last.hits[k].aliveBefore /\ ~last.hits[k].aliveAfter)

\* C7: applying an alien-player hit never changes the score (a frame changes it
\* by the awards of its projectile hits and nothing else); a session in which no
\* projectile hit is recorded keeps score 0.
C7_ContactNoPoints ==
    /\ [][last'.op = "playing" =>
              scoring'.score = scoring.score + POINTS_PER_ALIEN *
                  Cardinality({k \in 1..Len(last'.hits) : last'.hits[k].awarded})]_vars
    /\ [][(last'.op = "playing" /\ scoring.score = 0 /\ scoring'.score # 0) =>
              last'.hits # << >>]_vars
    /\ [](profile = "passive" => scoring.score = 0)

\* an alien died from touching the player in a frame without projectile hit
C7_Witness ==
    /\ last.op = "playing"
    /\ last.hits = << >>
    /\ \E k \in 1..Len(last.contacts) : ~last.contacts[k].alienAlive
    /\ scoring.score = 0

\* C8: each alien-player hit of a frame takes 1 off the alien's health and 1 off
\* the player's (floored at 0); k hits in a frame take min(k, health) off the
\* player; an alien of health ALIEN_HEALTH = 1 is not alive afterwards.
C8_ContactDamage ==
    [][last'.op = "playing" =>
        LET cs == last'.contacts
            h == PlayerOf(entities).health
        IN  /\ PlayerOf(entities').health = h - Min(Len(cs), h)
            /\ \A k \in 1..Len(cs) :
                  /\ cs[k].alienAfter = cs[k].alienBefore - 1
                  /\ cs[k].playerAfter = cs[k].playerBefore - Min(1, cs[k].playerBefore)
                  /\ cs[k].playerBefore = h - Min(k - 1, h)
                  /\ cs[k].alienBefore = ALIEN_HEALTH => ~cs[k].alienAlive]_vars

\* a frame with more contacts than the player had health: the floor is met
C8_Witness ==
    /\ last.op = "playing"
    /\ Len(last.contacts) >= 2
    /\ \E k \in 1..Len(last.contacts) : last.contacts[k].playerBefore = 0

\* C9: the player's health is an integer in 0..PLAYER_HEALTH, the player is
\* alive exactly when health > 0, and health never increases between two
\* start/restart actions.
C9_PlayerHealth ==
    /\ [](HasPlayer(entities) =>
            /\ PlayerOf(entities).health \in 0..PLAYER_HEALTH
            /\ PlayerOf(entities).alive <=> PlayerOf(entities).health > 0)
    /\ [][(HasPlayer(entities) /\ last'.op # "startGame") =>
            /\ HasPlayer(entities')
            /\ PlayerOf(entities').health <= PlayerOf(entities).health]_vars

\* the player's health has come down to 0 and the player is not alive
C9_Witness ==
    /\ HasPlayer(entities)
    /\ PlayerOf(entities).health = 0
    /\ ~PlayerOf(entities).alive

\* C10: the score is a non-negative multiple of POINTS_PER_ALIEN, never
\* decreases between two start/restart actions, and is set back to 0 only by
\* start/restart.
C10_Score ==
    /\ [](scoring.score >= 0 /\ scoring.score % POINTS_PER_ALIEN = 0)
    /\ [][scoring'.score < scoring.score =>
            (last'.op = "startGame" /\ scoring'.score = 0)]_vars

\* a restart that took a score of several kills back to 0
C10_Witness ==
    /\ last.op = "startGame"
    /\ last.score >= 2 * POINTS_PER_ALIEN
    /\ scoring.score = 0

\* C11: isWaveComplete never returns true too early: whenever it returns true
\* the wave has stopped spawning with its quota spawned, at least one alien was
\* spawned, and the Entity Manager holds no alien of the wave any more.
C11_NotTooEarly ==
    (last.op = "playing" /\ last.reported) =>
        /\ last.asked
        /\ waves[spawner.currentWave + 1].spawned = spawner.aliensToSpawn
        /\ spawner.aliensSpawned = spawner.aliensToSpawn
        /\ spawner.aliensSpawned > 0
        /\ ~spawner.waveActive
        /\ getByType(entities, "alien") = << >>

\* the last wave was just reported complete
C11_Witness ==
    /\ last.op = "playing"
    /\ last.reported
    /\ spawner.currentWave = Len(WAVES) - 1

\* C12 as stated: isWaveComplete returns true on every call made when the wave
\* has stopped spawning, at least one alien was spawned and the Entity Manager
\* holds no alien whose liveness flag is true.
C12_TrueWhenNoLiveAlien ==
    (/\ last.op = "playing"
     /\ last.asked
     /\ ~spawner.waveActive
     /\ spawner.aliensSpawned > 0
     /\ \A i \in 1..Len(entities) : entities[i].type = "alien" => ~entities[i].alive)
        => last.reported

\* C12 as amended: isWaveComplete returns true on every call made when the
\* wave has stopped spawning, at least one alien was spawned and the Entity
\* Manager holds no alien at all, alive or not.
C12_TrueWhenNoAlienHeld ==
    (/\ last.op = "playing"
     /\ last.asked
     /\ ~spawner.waveActive
     /\ spawner.aliensSpawned > 0
     /\ getByType(entities, "alien") = << >>)
        => (last.reported /\ spawner.waveComplete)

\* the call of the frame after the one that killed the wave's last alien
C12_Witness ==
    /\ last.op = "playing"
    /\ last.asked
    /\ last.reported
    /\ last.hits = << >>
    /\ last.contacts = << >>
    /\ spawner.waveComplete

\* C13: SpawnerSystem.update spawns at most one alien per call and none while
\* the wave is not active; aliensSpawned never exceeds the quota WAVES[w].count;
\* the wave stops being active in the call in which the counter reaches the
\* quota; exactly WAVES[w].count aliens are spawned over the wave.
C13_SpawnQuota ==
    /\ [](state # "MENU" =>
            /\ spawner.aliensToSpawn = WAVES[spawner.currentWave + 1].count
            /\ spawner.aliensSpawned \in 0..spawner.aliensToSpawn
            /\ spawner.waveActive <=> spawner.aliensSpawned < spawner.aliensToSpawn
            /\ waves[Len(waves)].spawned = spawner.aliensSpawned
            /\ \A k \in 1..Len(waves) :
                   waves[k].complete => waves[k].spawned = WAVES[k].count)
    /\ [][last'.op = "playing" =>
            LET new == Len(getByType(entities', "alien"))
                       + Cardinality({k \in 1..Len(entities) :
                                        entities[k].type = "alien" /\ ~entities[k].alive})
                       - Len(getByType(entities, "alien"))
            IN  /\ new = (IF last'.spawned THEN 1 ELSE 0)
                /\ last'.spawned => spawner.waveActive
                /\ last'.started = -1 =>
                       spawner'.aliensSpawned = spawner.aliensSpawned + new]_vars

\* the update call that spawned the last alien of the last wave and closed it
C13_Witness ==
    /\ last.op = "playing"
    /\ last.spawned
    /\ ~spawner.waveActive
    /\ spawner.currentWave = Len(WAVES) - 1
    /\ spawner.aliensSpawned = WAVES[Len(WAVES)].count

\* C15: the fire-rate cooldown is a gate: a PLAYING frame creates at most one
\* projectile, and creates one exactly when the shoot flag is set and
\* gameTime - lastFireTime >= PROJECTILE_FIRE_RATE; recordFire is called once
\* per created projectile and never otherwise; two accepted shots of a session
\* are at least PROJECTILE_FIRE_RATE apart on the game clock.
C15_FireGate ==
    [][last'.op = "playing" =>
        LET before == PlayerOf(entities).lastFireTime
            after == PlayerOf(entities').lastFireTime
        IN  /\ last'.fired <=>
                  (last'.shooting /\ gameTime' - before >= PROJECTILE_FIRE_RATE)
            /\ Len(getByType(entities', "projectile"))
                  <= Len(getByType(entities, "projectile"))
                     + (IF last'.fired THEN 1 ELSE 0)
            /\ after = (IF last'.fired THEN gameTime' ELSE before)
            /\ (last'.fired /\ before > 0) =>
                  gameTime' - before >= PROJECTILE_FIRE_RATE]_vars

\* the shoot flag was raised inside the cooldown of an accepted shot: no projectile
C15_Witness ==
    /\ last.op = "playing"
    /\ last.shooting
    /\ ~last.fired
    /\ PlayerOf(entities).lastFireTime > 0
    /\ gameTime - PlayerOf(entities).lastFireTime < PROJECTILE_FIRE_RATE

\* C14: startWave(index) with index >= WAVES.length is a no-op: every spawner
\* field (current wave, quota, spawned counter, both timers, waveActive,
\* waveComplete) and the Entity Manager are left as they were; an index of the
\* table starts that wave.
C14_StartWaveBeyondTable ==
    [][last'.op = "startWave" =>
        IF last'.waveNumber >= Len(WAVES)
        THEN /\ spawner' = spawner
             /\ entities' = entities
        ELSE /\ spawner'.currentWave = last'.waveNumber
             /\ spawner'.waveActive]_vars

\* startWave was called beyond the table in the middle of a wave, aliens held
C14_Witness ==
    /\ last.op = "startWave"
    /\ last.waveNumber >= Len(WAVES)
    /\ spawner.waveActive
    /\ spawner.aliensSpawned > 0
    /\ spawner.spawnTimer > 0
    /\ entities # << >>

\* C17: checkCollisions records at most one hit per projectile per pass; the
\* alien a hit records is the first alive alien, in the order of the aliens
\* list passed in, whose distance to the projectile is below
\* HIT_DISTANCE_PROJECTILE_ALIEN, and every live projectile with such an alien
\* has a hit; projectiles and aliens that are not alive are in no hit set.
C17_FirstAliveAlien ==
    last.op = "checkCollisions" =>
        LET pos == last.pos
            hits == last.result.projectileHits
            contacts == last.result.alienPlayerHits
            aliens == getByType(entities, "alien")
            projectiles == getByType(entities, "projectile")
            InRange(p, k) ==
                /\ entities[aliens[k]].alive
                /\ Distance(pos[p], pos[aliens[k]]) < HIT_DISTANCE_PROJECTILE_ALIEN
        IN  /\ \A j \in 1..Len(projectiles) :
                  LET p == projectiles[j]
                      mine == {h \in 1..Len(hits) : hits[h].projectile = p}
                  IN  /\ Cardinality(mine) <= 1
                      /\ mine # {} <=>
                            (entities[p].alive /\ \E k \in 1..Len(aliens) : InRange(p, k))
            /\ \A h \in 1..Len(hits) :
                  /\ entities[hits[h].projectile].type = "projectile"
                  /\ entities[hits[h].projectile].alive
                  /\ \E k \in 1..Len(aliens) :
                        /\ aliens[k] = hits[h].alien
                        /\ InRange(hits[h].projectile, k)
                        /\ \A j \in 1..(k - 1) : ~InRange(hits[h].projectile, j)
            /\ \A c \in 1..Len(contacts) :
                  /\ entities[contacts[c]].type = "alien"
                  /\ entities[contacts[c]].alive

\* a pass with two alive aliens in range of a live projectile, the first of
\* them the farther one: the hit records the first
C17_Witness ==
    /\ last.op = "checkCollisions"
    /\ Len(last.result.projectileHits) = 1
    /\ \E a1, a2, p \in 1..Len(entities) :
          /\ a1 < a2
          /\ entities[a1].type = "alien" /\ entities[a1].alive
          /\ entities[a2].type = "alien" /\ entities[a2].alive
          /\ entities[p].type = "projectile" /\ entities[p].alive
          /\ Distance(last.pos[p], last.pos[a2]) < Distance(last.pos[p], last.pos[a1])
          /\ Distance(last.pos[p], last.pos[a1]) < HIT_DISTANCE_PROJECTILE_ALIEN
          /\ last.result.projectileHits[1] = [projectile |-> p, alien |-> a1]

\* C18 as stated: every alive alien that is within projectile range of a live
\* projectile and within HIT_DISTANCE_ALIEN_PLAYER of the player is recorded in
\* both hit sets of the pass.
C18_InRangeInBothSets ==
    last.op = "frame" =>
        LET objs == last.updated
            pos == last.pos
            player == PlayerIndex(last.before)
        IN  \A a \in 1..Len(objs) :
                (/\ objs[a].type = "alien"
                 /\ objs[a].alive
                 /\ Distance(pos[player], pos[a]) < HIT_DISTANCE_ALIEN_PLAYER
                 /\ \E p \in 1..Len(objs) :
                       /\ objs[p].type = "projectile"
                       /\ objs[p].alive
                       /\ Distance(pos[p], pos[a]) < HIT_DISTANCE_PROJECTILE_ALIEN)
                =>  /\ \E h \in 1..Len(last.hits) : last.hits[h].alien = a
                    /\ \E c \in 1..Len(last.contacts) : last.contacts[c].alien = a

\* C18 as amended: an alive alien that is the first alive alien, in list order,
\* within projectile range of a live projectile and that is within
\* HIT_DISTANCE_ALIEN_PLAYER of the player is recorded in both hit sets, and
\* the controller applies both outcomes in that frame: the projectile is
\* killed, the alien is damaged once by each projectile that recorded it and
\* once more by the contact, and the player takes 1 damage although a
\* projectile already killed that alien.
C18_FirstInRangeInBothSets ==
    last.op = "frame" =>
        LET objs == last.updated
            pos == last.pos
            player == PlayerIndex(last.before)
            Near(p, a) ==
                /\ objs[a].type = "alien"
                /\ objs[a].alive
                /\ Distance(pos[p], pos[a]) < HIT_DISTANCE_PROJECTILE_ALIEN
            First(p, a) ==
                /\ objs[p].type = "projectile"
                /\ objs[p].alive
                /\ Near(p, a)
                /\ \A a2 \in 1..(a - 1) : ~Near(p, a2)
        IN  \A a \in 1..Len(objs) :
                (/\ objs[a].type = "alien"
                 /\ objs[a].alive
                 /\ Distance(pos[player], pos[a]) < HIT_DISTANCE_ALIEN_PLAYER
                 /\ \E p \in 1..Len(objs) : First(p, a))
                =>  LET of == {h \in 1..Len(last.hits) : last.hits[h].alien = a}
                        on == {c \in 1..Len(last.contacts) : last.contacts[c].alien = a}
                    IN  /\ \A p \in 1..Len(objs) :
                              First(p, a) =>
                                 \E h \in of : /\ last.hits[h].projectile = p
                                               /\ ~last.hits[h].projectileAlive
                        /\ Cardinality(on) = 1
                        /\ \A c \in on :
                              /\ last.contacts[c].alienBefore
                                     = objs[a].health - Cardinality(of)
                              /\ last.contacts[c].alienAfter
                                     = objs[a].health - Cardinality(of) - 1
                              /\ ~last.contacts[c].alienAlive
                              /\ last.contacts[c].playerAfter
                                     = (IF last.contacts[c].playerBefore > 0
                                        THEN last.contacts[c].playerBefore - 1 ELSE 0)

\* a frame in which one projectile killed an alien that touched the player
C18_Witness ==
    /\ last.op = "frame"
    /\ Len(last.hits) = 1
    /\ last.hits[1].awarded
    /\ \E c \in 1..Len(last.contacts) :
          /\ last.contacts[c].alien = last.hits[1].alien
          /\ last.contacts[c].alienAfter = ALIEN_HEALTH - 2
          /\ last.contacts[c].playerAfter = last.contacts[c].playerBefore - 1

\* C16: a projectile is not alive after an update that leaves its lifetime
\* strictly above PROJECTILE_LIFETIME or |x| or |z| strictly above
\* ARENA_SIZE + 10 units, and after kill(); it is alive after updates that keep
\* the lifetime <= PROJECTILE_LIFETIME inside the bounds when it was never
\* killed; a second kill() changes nothing.
C16_ProjectileLiveness ==
    LET p == entities[1]
    IN  /\ last.op = "update" =>
              /\ p.lifetime > PROJECTILE_LIFETIME => ~p.alive
              /\ Abs(last.x) > ARENA_SIZE + 20 => ~p.alive
              /\ Abs(last.z) > ARENA_SIZE + 20 => ~p.alive
              /\ ~last.before.alive => ~p.alive
        /\ last.op = "kill" =>
              /\ ~p.alive
              /\ ~last.before.alive => p = last.before
        /\ (~last.killed /\ ~last.outside /\ p.lifetime <= PROJECTILE_LIFETIME)
              => p.alive

\* the update that takes the lifetime one tick past the limit, inside the bounds
C16_Witness ==
    /\ last.op = "update"
    /\ last.before.alive
    /\ last.before.lifetime = PROJECTILE_LIFETIME
    /\ entities[1].lifetime = PROJECTILE_LIFETIME + 1
    /\ ~last.outside
    /\ ~entities[1].alive

\* C19: EntityManager.update invokes update on every held entity, alive or
\* not, and only afterwards removes entities: afterwards the manager holds
\* exactly the previously held entities whose liveness flag is true after
\* their update, in their original relative order, and dispose was invoked
\* once on each removed entity and on no surviving one.
C19_UpdateThenEvict ==
    last.op = "update" =>
        LET objs == [i \in 1..Len(last.before) |->
                        Entity_update(last.before[i], last.deltaTime, last.pos[i])]
            Times(e) == Cardinality({k \in 1..Len(last.disposed) :
                                        last.disposed[k].id = e.id})
        IN  /\ entities = SelectSeq(objs, LAMBDA e : e.alive)
            /\ last.disposed = SelectSeq(objs, LAMBDA e : ~e.alive)
            /\ \A i \in 1..Len(objs) :
                   Times(objs[i]) = (IF objs[i].alive THEN 0 ELSE 1)
            /\ \A i \in 1..Len(entities) : entities[i].alive

\* an update that evicted an entity that was dead before and a projectile that
\* left the bounds in this very call, and kept an entity between them
C19_Witness ==
    /\ last.op = "update"
    /\ \E i, j, k \in 1..Len(last.before) :
          /\ i < j /\ j < k
          /\ ~last.before[i].alive
          /\ last.before[k].alive
          /\ last.before[k].type = "projectile"
          /\ last.pos[k] = OutOfBounds
          /\ \E d \in 1..Len(last.disposed) :
                /\ last.disposed[d].id = last.before[k].id
                /\ last.disposed[d].lifetime = last.before[k].lifetime + last.deltaTime
          /\ \E h \in 1..Len(entities) : entities[h].id = last.before[j].id

C21_MovementClamp ==
    LET p == entities[1]
        Axis(now, before, m) ==
            LET to == before + (m * PLAYER_SPEED * last.deltaTime) \div TicksPerSecond
            IN  /\ to > ARENA_SIZE => now = ARENA_SIZE
                /\ to < -ARENA_SIZE => now = -ARENA_SIZE
                /\ (to >= -ARENA_SIZE /\ to <= ARENA_SIZE) => now = to
    IN  /\ p.x >= -ARENA_SIZE /\ p.x <= ARENA_SIZE
        /\ p.z >= -ARENA_SIZE /\ p.z <= ARENA_SIZE
        /\ last.op = "updateMovement" =>
              /\ last.movement = <<0, 0>> => p = last.before
              /\ last.movement # <<0, 0>> =>
                    /\ Axis(p.x, last.before.x, last.movement[1])
                    /\ Axis(p.z, last.before.z, last.movement[2])

\* a diagonal move along the wall: x is held on the bound it would cross while
\* z moves freely
C21_Witness ==
    /\ last.op = "updateMovement"
    /\ last.movement = <<1, -1>>
    /\ last.before.x = ARENA_SIZE
    /\ entities[1].x = ARENA_SIZE
    /\ entities[1].z < last.before.z
    /\ entities[1].z > -ARENA_SIZE

\* C23: while the state is MENU, GAME_OVER or WIN, update leaves the whole
\* simulation state unchanged: score, wave counter, the held entities with the
\* player's health, the spawner's counters and timers, the game clock and
\* waitingForNextWave; the state itself and the screen with the final score
\* stay as well.
C23_InertOutsidePlaying ==
    [][(last'.op = "idle" /\ state \in {"MENU", "GAME_OVER", "WIN"}) =>
          /\ scoring' = scoring
          /\ entities' = entities
          /\ spawner' = spawner
          /\ gameTime' = gameTime
          /\ waitingForNextWave' = waitingForNextWave
          /\ state' = state
          /\ Len(last'.reports) = 0
          /\ screen' = screen]_vars

\* an update call in WIN with points on the score and the clock advanced
C23_Witness ==
    /\ last.op = "idle"
    /\ state = "WIN"
    /\ scoring.score > 0
    /\ gameTime > 0
    /\ entities # << >>

\* C22 as stated, in the part that can be observed: the aliens are retargeted
\* before the spawner is advanced, so the alien a frame's spawner call creates
\* goes into that frame's update pass with the target it was constructed with.
C22_RetargetBeforeSpawner ==
    (last.op = "playing" /\ last.spawned) => "origin" \in last.targets

\* C22 as amended: every PLAYING frame runs (1) movement, (2) fire, (3) the
\* spawner, (4) the retargeting of all held aliens, (5) the update pass,
\* (6) collision detection, (7) the outcomes, (8) the game-over check and,
\* unless the game is over, (9) the wave progression: the projectile fired and
\* the alien spawned in a frame go through that frame's update pass, the alien
\* retargeted; the game-over check sees the outcomes of the frame; a frame that
\* ends the game does not reach the wave progression.
C22_FrameOrder ==
    [][last'.op = "playing" =>
          /\ \A i \in 1..Len(entities') :
                entities'[i].type = "projectile" =>
                    entities'[i].lifetime >= gameTime' - gameTime
          /\ last'.targets \subseteq {"player"}
          /\ last'.spawned => last'.targets = {"player"}
          /\ \A i \in 1..Len(entities') :
                entities'[i].type = "alien" => entities'[i].target = "player"
          /\ (state' = "GAME_OVER") <=> ~PlayerOf(entities').alive
          /\ last'.waveStep <=> state' # "GAME_OVER"
          /\ ~last'.waveStep =>
                /\ ~last'.asked /\ ~last'.delayed /\ ~last'.advanced
                /\ scoring'.currentWave = scoring.currentWave
                /\ spawner'.waveDelayTimer = spawner.waveDelayTimer
                /\ waitingForNextWave' = waitingForNextWave]_vars

\* a frame that fired and spawned, and whose new alien touched the player
C22_Witness ==
    /\ last.op = "playing"
    /\ last.fired
    /\ last.spawned
    /\ last.targets = {"player"}
    /\ \E c \in 1..Len(last.contacts) :
          \A i \in 1..Len(entities) :
              entities[i].type = "alien" => i <= last.contacts[c].alien

\* C24: every HUD report carries the current score, a health in
\* [0, PLAYER_HEALTH], and a wave display with 1 <= display <= total waves,
\* also in the frame that leads to WIN; every PLAYING frame and every start of
\* a session issues one report, and the report of a start is score 0, health
\* PLAYER_HEALTH, wave 1 of the total.
C24_HudReports ==
    /\ \A k \in 1..Len(last.reports) :
          LET r == last.reports[k]
          IN  /\ r.score = scoring.score
              /\ r.health = PlayerOf(entities).health
              /\ r.health >= 0 /\ r.health <= PLAYER_HEALTH
              /\ r.total = Len(WaveCounts)
              /\ r.wave >= 1 /\ r.wave <= r.total
    /\ last.op = "playing" => Len(last.reports) = 1
    /\ last.op = "startGame" =>
          last.reports = <<[score |-> 0, health |-> PLAYER_HEALTH, wave |-> 1,
                            total |-> Len(WaveCounts)]>>

\* the report of the frame that led to WIN shows the last wave
C24_Witness ==
    /\ last.op = "playing"
    /\ state = "WIN"
    /\ scoring.currentWave = Len(WaveCounts)
    /\ last.reports[1].wave = Len(WaveCounts)
    /\ last.reports[1].score > 0

\* C25: the inter-wave delay timer accumulates only in frames in which the
\* wave is complete (detected in this frame or before), starting from 0 in
\* the frame of the detection; the wave counter advances exactly in the frame
\* in which the accumulated delay reaches WAVE_DELAY; the timer is 0 again
\* when the next wave starts.
C25_WaveDelay ==
    [][last'.op = "playing" =>
          /\ last'.delayed <=>
                (last'.waveStep /\ (waitingForNextWave \/ last'.reported))
          /\ last'.delay = spawner.waveDelayTimer
                           + (IF last'.delayed THEN gameTime' - gameTime ELSE 0)
          /\ (last'.delayed /\ ~waitingForNextWave) => spawner.waveDelayTimer = 0
          /\ last'.advanced <=> (last'.delayed /\ last'.delay >= WAVE_DELAY)
          /\ scoring'.currentWave
                = scoring.currentWave + (IF last'.advanced THEN 1 ELSE 0)
          /\ waitingForNextWave' <=> (last'.delayed /\ ~last'.advanced)
          /\ last'.started >= 0 => spawner'.waveDelayTimer = 0
          /\ ~last'.advanced => spawner'.waveDelayTimer = last'.delay]_vars

\* the frame in which the delay after a later wave reached WAVE_DELAY and the
\* next wave was started
C25_Witness ==
    /\ last.op = "playing"
    /\ last.advanced
    /\ last.delay = WAVE_DELAY
    /\ ~last.reported
    /\ last.started >= 2
    /\ spawner.waveDelayTimer = 0

\* C28: at every point of a session the score is at most POINTS_PER_ALIEN
\* times the number of aliens spawned so far in that session.
C28_ScorePerAlien ==
    scoring.score <= POINTS_PER_ALIEN * SumSpawned(waves)

\* C29: every alien that goes through a PLAYING frame's update pass, the one
\* the spawner created in that frame included, has had setTarget called with
\* the player's position: no alien is updated with the origin target.
C29_TargetBeforeUpdate ==
    /\ last.op = "playing" => last.targets \subseteq {"player"}
    /\ \A i \in 1..Len(entities) :
          entities[i].type = "alien" => entities[i].target = "player"

\* a frame whose update pass ran on an alien of an earlier frame and on the
\* alien the spawner had just created
C29_Witness ==
    /\ last.op = "playing"
    /\ last.spawned
    /\ last.targets = {"player"}
    /\ Len(getByType(entities, "alien")) >= 2

\* C30: each alien reduces the player's health at most once over its life:
\* PLAYER_HEALTH minus the player's health is at most the number of aliens
\* spawned so far in the session.
C30_OneContactPerAlien ==
    state # "MENU" =>
        PLAYER_HEALTH - PlayerOf(entities).health <= SumSpawned(waves)

\* every alien spawned so far has touched the player, and one of them, killed
\* by the contact, is still held
C30_Witness ==
    /\ last.op = "playing"
    /\ SumSpawned(waves) >= 2
    /\ PLAYER_HEALTH - PlayerOf(entities).health = SumSpawned(waves)
    /\ \E i \in 1..Len(entities) : entities[i].type = "alien" /\ ~entities[i].alive

\* C26: an alien with health <= 0 is not alive; an alive alien with health 1
\* is not alive after one takeDamage(1) and is alive after takeDamage(0); an
\* alien that is not alive is not alive after any further takeDamage.
C26_AlienLethality ==
    /\ \A i \in 1..Len(entities) :
          (entities[i].type = "alien" /\ entities[i].health <= 0)
              => ~entities[i].alive
    /\ last.op = "takeDamage" =>
          /\ (last.before.alive /\ last.before.health = 1 /\ last.amount = 1)
                 => ~entities[1].alive
          /\ (last.before.alive /\ last.before.health = 1 /\ last.amount = 0)
                 => entities[1].alive
          /\ ~last.before.alive => ~entities[1].alive

\* an alien killed at health 0 has taken one more point of damage
C26_Witness ==
    /\ last.op = "takeDamage"
    /\ ~last.before.alive
    /\ last.before.health = 0
    /\ last.amount = 1
    /\ entities[1].health = -1
    /\ ~entities[1].alive

\* C27: counted from construction or reset, isAllWavesComplete is false after
\* fewer than five nextWave calls and true after five or more, whatever the
\* score.
C27_AllWavesComplete ==
    isAllWavesComplete(scoring) <=> last.calls >= Len(WaveCounts)

\* the fifth nextWave call after a reset, with points on the score
C27_Witness ==
    /\ last.op = "nextWave"
    /\ last.calls = Len(WaveCounts)
    /\ scoring.score > 0
    /\ isAllWavesComplete(scoring)

\* C31: every alien held was spawned in the spawner's current wave (it has that
\* wave's speed) and at most WAVES[currentWave].count aliens are held; while
\* the controller waits for the next wave the spawner is inactive and no alien
\* is held, and a frame that begins in the wait leaves the player's health as
\* it was and does not end in GAME_OVER.
C31_OneWaveAtATime ==
    /\ [](/\ \A i \in 1..Len(entities) :
               entities[i].type = "alien" =>
                   entities[i].speed = ALIEN_BASE_SPEED
                       + spawner.currentWave * ALIEN_SPEED_INCREMENT
          /\ Len(getByType(entities, "alien")) > 0 =>
                 Len(getByType(entities, "alien")) <= WAVES[spawner.currentWave + 1].count
          /\ waitingForNextWave =>
                 /\ ~spawner.waveActive
                 /\ Len(getByType(entities, "alien")) = 0)
    /\ [][(waitingForNextWave /\ last'.op = "playing") =>
              /\ PlayerOf(entities').health = PlayerOf(entities).health
              /\ last'.contacts = << >>
              /\ state' # "GAME_OVER"]_vars

\* two aliens of a wave after the first are held and have met an injured player
C31_Witness ==
    /\ last.op = "playing"
    /\ spawner.currentWave >= 1
    /\ Len(getByType(entities, "alien")) >= 2
    /\ PlayerOf(entities).health < PLAYER_HEALTH

\* C32: a projectile is recorded in at most one hit over its life: every
\* projectile a frame records a hit for is in the list built after that
\* frame's update pass, was alive when the frame began and is recorded once;
\* a projectile that was not alive when the frame began is not held after the
\* update pass.
C32_OneHitPerLife ==
    [][last'.op = "playing" =>
          /\ \A k \in 1..Len(last'.hits) :
                /\ \E j \in 1..Len(last'.kept) :
                       last'.kept[j] = last'.hits[k].projectile
                /\ last'.hits[k].projectile <= Len(entities) =>
                       entities[last'.hits[k].projectile].alive
                /\ \A m \in 1..Len(last'.hits) :
                       last'.hits[m].projectile = last'.hits[k].projectile => m = k
          /\ \A j \in 1..Len(last'.kept) :
                (/\ last'.kept[j] <= Len(entities)
                 /\ entities[last'.kept[j]].type = "projectile")
                    => entities[last'.kept[j]].alive]_vars

\* a frame that began with a projectile killed by a hit still held, evicted
\* it, and recorded a hit of another projectile
C32_Witness ==
    /\ last.op = "playing"
    /\ \E k \in 1..Len(last.stale) : last.stale[k].type = "projectile"
    /\ last.hits # << >>
    /\ Len(last.disposed) >= Len(last.stale)

\* C35: the liveness flag only falls: an entity a PLAYING frame keeps held is
\* the object it was when the frame began, and if it is alive after the frame
\* it was alive before; an entity that was not alive when the frame began is
\* not held after the frame's update pass and is among the disposed ones; a
\* frame outside PLAYING changes no flag; while PLAYING the player is alive.
C35_LivenessMonotone ==
    /\ [](state = "PLAYING" =>
             \A i \in 1..Len(entities) :
                entities[i].type = "player" => entities[i].alive)
    /\ [][/\ last'.op = "playing" =>
               /\ Len(entities') = Len(last'.kept)
               /\ \A j \in 1..Len(last'.kept) :
                     last'.kept[j] <= Len(entities) =>
                        /\ entities'[j].type = entities[last'.kept[j]].type
                        /\ entities'[j].alive => entities[last'.kept[j]].alive
                        /\ entities[last'.kept[j]].alive
               /\ last'.stale = Stale(entities)
               /\ Len(last'.disposed) >= Len(last'.stale)
               /\ \A k \in 1..Len(last'.disposed) : ~last'.disposed[k].alive
          /\ last'.op = "idle" => entities' = entities]_vars

\* a frame began with an alien and a projectile that had killed each other
\* still held, and evicted both
C35_Witness ==
    /\ last.op = "playing"
    /\ \E k \in 1..Len(last.stale) : last.stale[k].type = "alien"
    /\ \E k \in 1..Len(last.stale) : last.stale[k].type = "projectile"
    /\ Len(last.disposed) >= 2
    /\ \A i \in 1..Len(entities) : entities[i].alive

\* C36: every object leaves the manager's list through exactly one dispose
\* call: the objects of a PLAYING frame (those held before, the projectile
\* fired, the alien spawned) are each either held afterwards or disposed, never
\* both; a start or restart disposes every object held and holds the new
\* player only; a frame outside PLAYING disposes nothing; the update pass
\* never disposes the player.
C36_DisposedOnce ==
    [][/\ last'.op = "playing" =>
           /\ \A i \in 1..(Len(entities) + (IF last'.fired THEN 1 ELSE 0)
                                          + (IF last'.spawned THEN 1 ELSE 0)) :
                 Cardinality({j \in 1..Len(last'.kept) : last'.kept[j] = i})
                   + Cardinality({k \in 1..Len(last'.gone) : last'.gone[k] = i}) = 1
           /\ Len(last'.disposed) = Len(last'.gone)
           /\ Len(entities') = Len(last'.kept)
           /\ \A k \in 1..Len(last'.disposed) : last'.disposed[k].type # "player"
           /\ HasPlayer(entities')
       /\ last'.op = "startGame" =>
           /\ last'.disposed = entities
           /\ last'.gone = Indices(entities)
           /\ entities' = <<NewPlayer>>
       /\ last'.op = "idle" =>
           /\ Len(last'.disposed) = 0
           /\ entities' = entities]_vars

\* a restart after GAME_OVER disposed the dead player and the aliens held
C36_Witness ==
    /\ last.op = "startGame"
    /\ last.from = "GAME_OVER"
    /\ \E k \in 1..Len(last.disposed) :
          last.disposed[k].type = "player" /\ ~last.disposed[k].alive
    /\ \E k \in 1..Len(last.disposed) : last.disposed[k].type = "alien"
    /\ entities = <<NewPlayer>>

\* C37: while the state is PLAYING the spawner's wave index equals the scoring
\* system's wave counter and is below the number of configured waves; the
\* scoring system's counter never exceeds that number and equals it exactly
\* when the state is WIN.
C37_WaveCountersAgree ==
    /\ state = "PLAYING" =>
          /\ spawner.currentWave = scoring.currentWave
          /\ spawner.currentWave < Len(WAVES)
    /\ scoring.currentWave <= Len(WAVES)
    /\ scoring.currentWave = Len(WAVES) <=> state = "WIN"

\* the session was won: the scoring counter is one past the spawner's last wave
C37_Witness ==
    /\ state = "WIN"
    /\ scoring.currentWave = Len(WAVES)
    /\ spawner.currentWave = Len(WAVES) - 1
    /\ last.op = "playing"

\* C38: once isWaveComplete has returned true, every later call returns true
\* until a startWave that takes effect or a reset, whatever aliens the Entity
\* Manager holds by then; right after a startWave that took effect and right
\* after a reset a call returns false.
C38_CompleteIsCached ==
    /\ (last.op = "isWaveComplete" /\ last.was) => last.result
    /\ (\/ last.op = "reset"
        \/ last.op = "startWave" /\ last.waveNumber < Len(WAVES))
           => /\ ~spawner.waveComplete
              /\ ~isWaveComplete(spawner, entities).result
    /\ (last.op = "startWave" /\ last.waveNumber >= Len(WAVES) /\ last.was)
           => isWaveComplete(spawner, entities).result

\* the wave was found complete, aliens were added, and a later call still
\* returned true
C38_Witness ==
    /\ last.op = "isWaveComplete"
    /\ last.was
    /\ last.result
    /\ Len(getByType(entities, "alien")) >= 2

\* C34: an update call adds at most one alien, however long the frame, and
\* adds one only when the frame time handed to update since the wave was
\* started or since the previous spawn, this call's included, has reached the
\* wave's interval.
C34_SpawnInterval ==
    last.op = "update" =>
        /\ last.added \in {0, 1}
        /\ last.added = 1 => last.elapsed >= WAVES[last.wave + 1].interval

\* one frame of 3.5 s, more than two intervals, added one alien and the wave
\* is still spawning
C34_Witness ==
    /\ last.op = "update"
    /\ last.deltaTime = 70
    /\ last.added = 1
    /\ last.elapsed >= 2 * WAVES[last.wave + 1].interval
    /\ spawner.waveActive

C39_SpawningTerminates ==
    spawner.waveActive ~>
        (/\ ~spawner.waveActive
         /\ spawner.aliensSpawned = WAVES[spawner.currentWave + 1].count
         /\ Len(entities) = WAVES[spawner.currentWave + 1].count)

\* a short frame spawned the last alien of the quota and the wave stopped
C39_Witness ==
    /\ last.op = "update"
    /\ last.deltaTime = 6
    /\ last.added = 1
    /\ ~spawner.waveActive
    /\ spawner.aliensSpawned = WAVES[spawner.currentWave + 1].count

\* C33: wave progression is live: from every PLAYING state in which the
\* controller waits for the next wave, with the session's frames not about to
\* run out, a state is reached in which the wave counter is one higher and
\* either that wave has been started, the spawner active with nothing spawned
\* yet, or the state is WIN.
C33_ProgressionLive ==
    (/\ state = "PLAYING"
     /\ waitingForNextWave
     /\ gameTime + WAVE_DELAY <= FrameLimit * TicksPerSecond)
    ~> (/\ last.advanced
        /\ ~waitingForNextWave
        /\ \/ state = "WIN"
           \/ /\ state = "PLAYING"
              /\ spawner.currentWave = scoring.currentWave
              /\ spawner.waveActive
              /\ spawner.aliensSpawned = 0)

\* the frame that ended the wait after the second wave started the third
C33_Witness ==
    /\ last.op = "playing"
    /\ last.advanced
    /\ last.started = 2
    /\ state = "PLAYING"
    /\ spawner.waveActive
    /\ spawner.aliensSpawned = 0
    /\ scoring.currentWave = 2

====
